---- MODULE Spec2Model ----
(***************************************************************************)
(* A model of the web harvesting engine of AutoForge:                      *)
(*   - PapersWithCodeCrawler._get_with_retry (the fetch-retry loop),       *)
(*   - HFModelListParser.parse_model_list and the card-selector chain of   *)
(*     the papers listing operations (the cascading extractor),            *)
(*   - crawl_papers_batch / crawl_models_batch (the thread-pool fan-out),  *)
(*   - the _save_* operations (persistence),                               *)
(*   - the workflow stages of AutoForgeAgent and run_full_pipeline.        *)
(* Each part has its own specification over the shared variables.          *)
(***************************************************************************)
EXTENDS Integers, Sequences, FiniteSets, TLC

VARIABLES
    \* ---- _get_with_retry ----
    f_pc,          \* "idle" | "try" | "returned" | "raised"
    max_retries,   \* self.max_retries of the crawler making the call
    attempt,       \* the loop variable of `for attempt in range(max_retries+1)`
    retries_left,  \* what is left of the mounted Retry(total=max_retries) inside one session.get
    wire,          \* HTTP requests put on the wire by this call
    hist,          \* outcome of every finished loop iteration (session.get + raise_for_status)
    sleeps,        \* the argument of the time.sleep of every loop iteration so far, in half seconds
    f_result,      \* the response returned or the exception raised
    \* ---- listing extraction ----
    site,          \* "none" | "hf" | "pwc": whose listing page is being parsed
    html,          \* the model hub listing page, as its elements in document order
    cards,         \* the papers listing page, as its elements in document order
    top_k,         \* the requested number of records
    p_pc,          \* "idle" | "ready" | "done"
    models,        \* the records the listing extraction returned
    \* ---- crawl operations and the files they write ----
    fs,            \* the output directories: path -> content of the file at that path
    now,           \* the wall clock, in ticks
    c_ret,         \* how the last listing crawl ended, and what it returned
    sent,          \* the HTTP requests the running (or last) operation has issued
    \* ---- batch enrichment ----
    b_pc,          \* "idle" | "pool" (inside the `with ThreadPoolExecutor`) | "returned" | "raised"
    b_site,        \* "hf" (crawl_models_batch) | "pwc" (crawl_papers_batch)
    b_in,          \* the listing records as they were when the tasks were submitted
    obj,           \* the listing record objects (dicts), by position in the input list
    fut,           \* the submitted futures: the record each belongs to and its state
    collected,     \* the futures as_completed has yielded so far
    detailed,      \* detailed_papers / detailed_models: references into obj
    max_workers,   \* size of the thread pool
    \* ---- TaskManager ----
    tm_pc,         \* "new" | "loaded" (the constructor returned) | "failed" (it raised)
    config,        \* the content of the file at self.config_path
    tasks,         \* self.tasks: tag -> task dict
    sort_options,  \* self.sort_options: value -> option dict
    tm_ret,        \* how the last call on the TaskManager ended, and its result
    \* ---- detail workers fetching through the one session of a crawler ----
    session_ua,    \* self.session.headers['User-Agent']
    w_pc,          \* per worker: "idle" | "header" | "sleep" | "returned" | "raised"
    w_attempt,     \* per worker: its loop variable `attempt`
    w_selected,    \* per worker: the random.choice of its current attempt
    w_sent,        \* per worker: its last request, what it selected and what was sent
    \* ---- detail page extraction ----
    d_pc,          \* "idle" | "ready" | "done"
    d_site,        \* "none" | "hf" (parse_model_card) | "pwc" (crawl_paper_details)
    d_page,        \* the detail page, as what the extractors look for in it
    d_info,        \* the dict the extraction returned
    \* ---- PaperDownloader.download_from_url ----
    dl_pc,         \* "idle" | "try" (inside the loop) | "done"
    dl_max_retries,\* self.max_retries of the downloader
    dl_url,        \* the url of the running (or last) call
    dl_attempt,    \* the loop variable `attempt`
    disk,          \* per url, the file at its save_path: whether it exists, the chunks in it
    dl_ret,        \* what the last call returned: "path" (str(save_path)) or "None"
    \* ---- AutoForgeAgent ----
    workflow_state,\* self.workflow_state: slot -> None or the dict its analyzer returned
    pl_pc,         \* "idle", or the stage run_full_pipeline calls next
    pl_ret,        \* how the last run_full_pipeline ended: "none" | "running" | "success" | "raised"
    a_ret          \* how the last call of a stage ended

fetchVars == <<f_pc, max_retries, attempt, retries_left, wire, hist, sleeps, f_result>>

parseVars == <<site, html, cards, top_k, p_pc, models>>

crawlVars == <<fs, now, c_ret, sent>>

batchVars == <<b_pc, b_site, b_in, obj, fut, collected, detailed, max_workers>>

catalogVars == <<tm_pc, config, tasks, sort_options, tm_ret>>

sessionVars == <<session_ua, w_pc, w_attempt, w_selected, w_sent>>

detailVars == <<d_pc, d_site, d_page, d_info>>

downloadVars == <<dl_pc, dl_max_retries, dl_url, dl_attempt, disk, dl_ret>>

agentVars == <<workflow_state, pl_pc, pl_ret, a_ret>>

vars ==
    <<fetchVars, parseVars, crawlVars, batchVars, catalogVars, sessionVars, detailVars,
      downloadVars, agentVars>>

----------------------------------------------------------------------------
\* Bounds of the model.
MaxRetries == 2
\* Elements of a model hub listing page.
MaxElems == 3
\* Elements of a papers listing page.
MaxCards == 2
\* Largest top_k asked for.
MaxTopK == 3
\* Records handed to crawl_papers_batch.
MaxRecs == 3
\* Largest thread pool.
MaxWorkers == 2
\* Ticks of the wall clock the model runs for.
MaxTicks == 3
\* Clock ticks in one second, the resolution of the strftime("%Y%m%d_%H%M%S") stamp.
TicksPerSecond == 2

----------------------------------------------------------------------------
(***************************************************************************)
(* _get_with_retry                                                         *)
(***************************************************************************)

\* Retry(status_forcelist=[429, 500, 502, 503, 504]) mounted on the session.
StatusForcelist == {429, 500, 502, 503, 504}

\* Status codes a server answers with in the model: a 2xx, a 3xx that requests
\* does not follow (no Location / Not Modified), a 4xx, 404, two forcelist codes.
Statuses == {200, 304, 403, 404, 500, 503}

\* What one request on the wire can come to.
WireOutcomes ==
    [k : {"resp"}, s : Statuses] \cup [k : {"timeout", "conn"}, s : {0}]

NoResult == [k |-> "none", s |-> 0, at |-> 0]

\* Variant: only server errors raise.
RaisesForStatus_ServerOnly(s) == s >= 500 /\ s < 600

\* response.raise_for_status(): raises HTTPError for 4xx and 5xx only.
RaisesForStatus(s) == s >= 400 /\ s < 600

\* The adapter (urllib3 Retry) retries inside session.get on connection errors,
\* read timeouts and forcelist statuses while its total is not used up.
AdapterRetries(w) ==
    \/ w.k \in {"timeout", "conn"}
    \/ w.k = "resp" /\ w.s \in StatusForcelist

\* What session.get hands to the loop body once the adapter stops on `w`:
\* the response itself, or the exception of the exhausted adapter
\* (ConnectTimeout / ConnectionError / RetryError).
SessionGetOutcome(w) ==
    IF w.k = "resp" /\ w.s \in StatusForcelist
    THEN [k |-> "retryerr", s |-> w.s]
    ELSE w

\* Variant: the `return response` line is missing, the loop goes on after a success.
IsSuccess_NoReturn(o) == FALSE

\* `return response` is reached: session.get returned and raise_for_status passed.
IsSuccess(o) == o.k = "resp" /\ ~RaisesForStatus(o.s)

\* Variant: the terminal status is compared with the wrong code.
IsNotFound_WrongCode(o) == o.k = "resp" /\ o.s = 403

\* except HTTPError: `if e.response.status_code == 404: raise`
IsNotFound(o) == o.k = "resp" /\ o.s = 404

\* Variant: the `if attempt == max_retries: raise` lines are missing.
HandlerRaises_OnlyNotFound(o, a, mr) == o.k = "resp" /\ o.s = 404

\* Variant: the last attempt is taken to be attempt max_retries - 1.
HandlerRaises_GivesUpEarly(o, a, mr) ==
    CASE o.k \in {"timeout", "conn"} -> a >= mr - 1
      [] o.k = "resp"                -> (o.k = "resp" /\ o.s = 404) \/ a >= mr - 1
      [] OTHER                       -> a >= mr - 1

\* The three except clauses end the call when this holds, otherwise the loop goes on:
\*   (Timeout, ConnectionError): attempt == max_retries
\*   HTTPError: status 404, or attempt == max_retries
\*   Exception: attempt == max_retries
HandlerRaises(o, a, mr) ==
    CASE o.k \in {"timeout", "conn"} -> a = mr
      [] o.k = "resp"                -> IsNotFound(o) \/ a = mr
      [] OTHER                       -> a = mr

\* self.delay, in seconds (the default of the constructor).
Delay == 1

\* random.uniform(0.5, 2.0), in halves: its bounds and the values between.
Jitters == {1, 2, 3, 4}

\* The sleep at the top of the loop body, in half seconds: self.delay for
\* attempt 0, else self.delay * (2 ** attempt) * jitter.
SleepTime(a, jitter) == IF a > 0 THEN Delay * (2 ^ a) * jitter ELSE 2 * Delay

\* The call enters its loop: attempt 0 sleeps self.delay.
GetWithRetry_Call(mr) ==
    /\ f_pc = "idle"
    /\ f_pc' = "try"
    /\ max_retries' = mr
    /\ attempt' = 0
    /\ retries_left' = mr
    /\ wire' = 0
    /\ hist' = << >>
    /\ sleeps' = <<SleepTime(0, 0)>>
    /\ f_result' = NoResult
    /\ UNCHANGED <<parseVars, crawlVars, batchVars, catalogVars,
                   sessionVars, detailVars, downloadVars, agentVars>>

\* One request of the session.get of the current loop iteration, answered by
\* `w`; if the loop goes on, the next iteration draws `jitter` and sleeps.
GetWithRetry_Send(w, jitter) ==
    /\ f_pc = "try"
    /\ wire' = wire + 1
    /\ max_retries' = max_retries
    /\ UNCHANGED <<parseVars, crawlVars, batchVars, catalogVars,
                   sessionVars, detailVars, downloadVars, agentVars>>
    /\ IF AdapterRetries(w) /\ retries_left > 0
       THEN \* the adapter sends the request again; the loop body does not see it
            /\ retries_left' = retries_left - 1
            /\ UNCHANGED <<f_pc, attempt, hist, sleeps, f_result>>
       ELSE LET o == SessionGetOutcome(w)
                r == [k |-> o.k, s |-> o.s, at |-> attempt + 1]
            IN  /\ hist' = Append(hist, o)
                /\ IF IsSuccess(o)
                   THEN /\ f_pc' = "returned"
                        /\ f_result' = r
                        /\ UNCHANGED <<attempt, retries_left, sleeps>>
                   ELSE IF HandlerRaises(o, attempt, max_retries)
                   THEN /\ f_pc' = "raised"
                        /\ f_result' = r
                        /\ UNCHANGED <<attempt, retries_left, sleeps>>
                   ELSE IF attempt = max_retries
                   THEN \* the handler did not raise and range() is used up: the
                        \* function ends without a return statement
                        /\ f_pc' = "returned"
                        /\ f_result' = [k |-> "None", s |-> 0, at |-> attempt + 1]
                        /\ UNCHANGED <<attempt, retries_left, sleeps>>
                   ELSE /\ attempt' = attempt + 1
                        /\ retries_left' = max_retries
                        /\ sleeps' = Append(sleeps, SleepTime(attempt + 1, jitter))
                        /\ UNCHANGED <<f_pc, f_result>>

FetchIdle ==
    /\ f_pc = "idle"
    /\ max_retries = 0
    /\ attempt = 0
    /\ retries_left = 0
    /\ wire = 0
    /\ hist = << >>
    /\ sleeps = << >>
    /\ f_result = NoResult

FetchNext ==
    \/ \E mr \in 0..MaxRetries : GetWithRetry_Call(mr)
    \/ \E w \in WireOutcomes, jitter \in Jitters : GetWithRetry_Send(w, jitter)

----------------------------------------------------------------------------
(***************************************************************************)
(* Listing extraction: HFModelListParser and the papers card chain         *)
(***************************************************************************)

\* Strings are sequences of one-character strings.
Take(s, n) == SubSeq(s, 1, IF Len(s) < n THEN Len(s) ELSE n)

SeqMin(S) == CHOOSE x \in S : \A y \in S : x <= y
SeqMax(S) == CHOOSE x \in S : \A y \in S : x >= y

\* str.strip(chars): drops the leading and trailing characters that are in C.
Strip(h, C) ==
    LET keep == {i \in 1..Len(h) : h[i] \notin C}
    IN  IF keep = {} THEN << >> ELSE SubSeq(h, SeqMin(keep), SeqMax(keep))

\* str.strip(): the same for white space.
StripWs(t) == Strip(t, {" "})

\* [\w-] and [\w.-] of the entity link pattern.
IsWord(c) == c \in {"a", "b", "c", "m", "x", "_", "-"}
IsWordDot(c) == IsWord(c) \/ c = "."

\* re.compile(r'^/[\w-]+/[\w.-]+$'): a slash, an owner, a slash, a name.
MatchesEntity(h) ==
    \E k \in 3..(Len(h) - 1) :
        /\ h[1] = "/"
        /\ h[k] = "/"
        /\ \A j \in 2..(k - 1) : IsWord(h[j])
        /\ \A j \in (k + 1)..Len(h) : IsWordDot(h[j])

NoHref == << >>
GoodHref == <<"/", "a", "/", "b">>
OtherHref == <<"/", "a", "/", "c">>
DotHref == <<"/", "a", "/", ".">>
NavHref == <<"/", "m">>
SlashHref == <<"/", "a", "/", "b", "/">>

BlankText == <<" ">>
NamedText == <<" ", "x", " ">>

\* An element of a model hub page: its tag (a div stands for a div whose class
\* matches model|card), the href of the link it is or holds (NoHref: none), the
\* text of that link, and whether download numbers stand beside it.
HtmlElem(tag, href, text, stats) ==
    [tag |-> tag, href |-> href, text |-> text, stats |-> stats]

\* The first <a> below a card whose href matches the entity pattern:
\* article.find('a', href=re.compile(...)), div.find('a', href=re.compile(...)).
FindEntityLink(e) == IF MatchesEntity(e.href) THEN e.href ELSE NoHref

\* The dict a card parser builds: model_id/name/url when a link was found, the
\* optional keys in `extras`; `by` records the strategy that built it.
ModelInfo(href, text, extras, by) ==
    IF href = NoHref
    THEN [model_id |-> << >>, name |-> << >>, url |-> << >>, extras |-> extras, by |-> by]
    ELSE LET model_id == Strip(href, {"/"})
         IN  [model_id |-> model_id,
              name     |-> IF StripWs(text) # << >> THEN StripWs(text) ELSE model_id,
              url      |-> href,
              extras   |-> extras,
              by       |-> by]

\* _parse_article_card: the link fields, then downloads whether or not a link was found.
ParseArticleCard(e) ==
    ModelInfo(FindEntityLink(e), e.text, IF e.stats THEN {"downloads"} ELSE {}, 1)

\* _parse_div_card: everything hangs on the link.
ParseDivCard(e) ==
    LET link == FindEntityLink(e)
    IN  ModelInfo(link, e.text, IF link # NoHref /\ e.stats THEN {"downloads"} ELSE {}, 2)

\* _parse_link: re.match on the href again, stats from the parent's text.
ParseLink(e) ==
    LET link == IF MatchesEntity(e.href) THEN e.href ELSE NoHref
    IN  ModelInfo(link, e.text, IF link # NoHref /\ e.stats THEN {"stats"} ELSE {}, 3)

\* Variant: a card is kept as soon as the parser returned a non-empty dict.
Usable_AnyDict(r) == r.model_id # << >> \/ r.extras # {}

\* `if model_info and model_info.get('model_id')`
Usable(r) == r.model_id # << >>

\* Method 1: soup.find_all('article', limit=top_k), every usable card appended.
Strategy1(doc, k) ==
    LET articles == Take(SelectSeq(doc, LAMBDA e : e.tag = "article"), k)
    IN  SelectSeq([i \in 1..Len(articles) |-> ParseArticleCard(articles[i])], Usable)

\* Method 2: find_all('div', class_=model|card, limit=top_k*2), stop at top_k records.
Strategy2(doc, k) ==
    LET model_divs == Take(SelectSeq(doc, LAMBDA e : e.tag = "div"), 2 * k)
    IN  Take(SelectSeq([i \in 1..Len(model_divs) |-> ParseDivCard(model_divs[i])], Usable), k)

\* Method 3: find_all('a', href=pattern, limit=top_k*2) over the whole document,
\* the links inside articles and divs included; stop at top_k records.
Strategy3(doc, k) ==
    LET links == Take(SelectSeq(doc, LAMBDA e : MatchesEntity(e.href)), 2 * k)
    IN  Take(SelectSeq([i \in 1..Len(links) |-> ParseLink(links[i])], Usable), k)

\* Variant: the later methods run whatever the earlier ones found.
ParseModelList_Merging(doc, k) ==
    Take(Strategy1(doc, k) \o Strategy2(doc, k) \o Strategy3(doc, k), k)

\* parse_model_list: `if not models` guards methods 2 and 3; models[:top_k].
ParseModelList(doc, k) ==
    LET m1 == Strategy1(doc, k)
        m2 == IF m1 = << >> THEN Strategy2(doc, k) ELSE m1
        m3 == IF m2 = << >> THEN Strategy3(doc, k) ELSE m2
    IN  Take(m3, k)

\* An element of a papers page. sel is the most specific selector of the chain
\* that matches it: 1 div.'row paper-card', 2 div.paper-card, 3 .paper-card (not
\* a div), 4 .paper-card-container, 5 .infinite-item. title: "none" (no title
\* element), "empty" (a title element without text) or "text"; link: the title
\* element is or holds an <a href>; id is that href.
PaperElem(sel, title, link, id) ==
    [sel |-> sel, title |-> title, link |-> link, id |-> id]

\* Which elements each selector of the chain returns.
SelectorMatches(n, e) ==
    CASE n = 1 -> e.sel = 1
      [] n = 2 -> e.sel \in {1, 2}
      [] n = 3 -> e.sel \in {1, 2, 3}
      [] n = 4 -> e.sel = 4
      [] n = 5 -> e.sel = 5

SelectorFinds(n, doc) == SelectSeq(doc, LAMBDA e : SelectorMatches(n, e))

\* `find_all(..) or find_all(..) or select(..) or select(..) or select(..)`:
\* the first selector with a non-empty list (5, the last operand, if all are empty).
ChosenSelector(doc) ==
    IF \E n \in 1..5 : SelectorFinds(n, doc) # << >>
    THEN SeqMin({n \in 1..5 : SelectorFinds(n, doc) # << >>})
    ELSE 5

PaperItems(doc) == SelectorFinds(ChosenSelector(doc), doc)

\* The hrefs of two paper pages, relative as the listing page gives them.
PaperHref1 == <<"/", "p">>
PaperHref2 == <<"/", "q">>

\* urljoin(self.base_url, url): "h" stands for the scheme and host of base_url;
\* a url that has them already is left as it is.
UrlJoin(url) == IF url # << >> /\ url[1] = "h" THEN url ELSE <<"h">> \o url

\* _parse_paper_item: title and url (urljoin of the href) or nothing (None is
\* the record with the empty url).
ParsePaperItem(e, by) ==
    IF e.title = "none" \/ ~e.link
    THEN [title |-> "none", url |-> << >>, by |-> by]
    ELSE [title |-> e.title, url |-> UrlJoin(e.id), by |-> by]

\* `paper_items[:top_k]`, then `if paper_info: papers.append(paper_info)`.
ParsePaperListing(doc, k) ==
    LET n == ChosenSelector(doc)
        items == Take(PaperItems(doc), k)
        infos == [i \in 1..Len(items) |-> ParsePaperItem(items[i], n)]
    IN  SelectSeq(infos, LAMBDA r : r.url # << >>)

\* The pages the extraction is run on.
HtmlElems ==
    {HtmlElem("article", NoHref, BlankText, TRUE)}
    \cup {HtmlElem("article", GoodHref, t, st) : t \in {BlankText, NamedText}, st \in BOOLEAN}
    \cup {HtmlElem("div", NoHref, BlankText, TRUE)}
    \cup {HtmlElem("div", DotHref, t, st) : t \in {BlankText, NamedText}, st \in BOOLEAN}
    \cup {HtmlElem("a", h, NamedText, FALSE) : h \in {NavHref, SlashHref}}
    \cup {HtmlElem("a", OtherHref, t, TRUE) : t \in {BlankText, NamedText}}

SeqsUpTo(S, n) == UNION {[1..m -> S] : m \in 0..n}

PaperElems ==
    {PaperElem(sel, "none", FALSE, PaperHref1) : sel \in 1..5}
    \cup {PaperElem(sel, t, l, PaperHref1) : sel \in 1..5, t \in {"empty", "text"}, l \in BOOLEAN}

ParseIdle ==
    /\ site = "none"
    /\ html = << >>
    /\ cards = << >>
    /\ top_k = 1
    /\ p_pc = "idle"
    /\ models = << >>

ParseInit ==
    /\ p_pc = "ready"
    /\ models = << >>
    /\ top_k \in 1..MaxTopK
    /\ \/ site = "hf" /\ html \in SeqsUpTo(HtmlElems, MaxElems) /\ cards = << >>
       \/ site = "pwc" /\ cards \in SeqsUpTo(PaperElems, MaxCards) /\ html = << >>

ParseModelList_Run ==
    /\ p_pc = "ready"
    /\ site = "hf"
    /\ models' = ParseModelList(html, top_k)
    /\ p_pc' = "done"
    /\ UNCHANGED <<site, html, cards, top_k>>
    /\ UNCHANGED <<fetchVars, crawlVars, batchVars, catalogVars,
                   sessionVars, detailVars, downloadVars, agentVars>>

PaperListing_Run ==
    /\ p_pc = "ready"
    /\ site = "pwc"
    /\ models' = ParsePaperListing(cards, top_k)
    /\ p_pc' = "done"
    /\ UNCHANGED <<site, html, cards, top_k>>
    /\ UNCHANGED <<fetchVars, crawlVars, batchVars, catalogVars,
                   sessionVars, detailVars, downloadVars, agentVars>>

ParseNext ==
    \/ ParseModelList_Run
    \/ PaperListing_Run

----------------------------------------------------------------------------
(***************************************************************************)
(* TaskManager: the task catalog                                           *)
(***************************************************************************)

\* Tags, names, descriptions and keywords are strings whose characters
\* matter: they are sequences of characters.
LowerChar(ch) ==
    IF ch = "T" THEN "t" ELSE IF ch = "C" THEN "c" ELSE IF ch = "N" THEN "n" ELSE ch

\* str.lower
Lower(s) == [i \in 1..Len(s) |-> LowerChar(s[i])]

\* `k in s` on two strings
IsSubstring(k, s) == \E i \in 0..(Len(s) - Len(k)) : SubSeq(s, i + 1, i + Len(k)) = k

\* Entries of a task category in the YAML file: a complete one, and entries
\* that lack one of the keys. Two of them carry the same tag.
TextClassification == <<"t", "c">>
TaskFull == [tag |-> TextClassification, name |-> <<"T", "C">>, description |-> <<"d">>]
TaskNoDescription == [tag |-> <<"n">>, name |-> <<"N">>]
TaskNoName == [tag |-> TextClassification, description |-> <<"d">>]
TaskNoTag == [name |-> <<"T", "C">>, description |-> <<"d">>]
Entries == {TaskFull, TaskNoDescription, TaskNoName, TaskNoTag}

\* Entries of the sort_options category.
SortOption == [value |-> <<"t">>, name |-> <<"T">>]
OptionNoValue == [name |-> <<"T">>]
Options == {SortOption, OptionNoValue}

\* Entries under one category of the file.
MaxEntries == 2

\* A key of the mapping with its value: a list of entries, or a scalar.
CategoryItems(category, entries) ==
    {[category |-> category, is_list |-> TRUE, entries |-> es] :
         es \in UNION {[1..m -> entries] : m \in 0..MaxEntries}}
    \cup {[category |-> category, is_list |-> FALSE, entries |-> << >>]}

\* What yaml.safe_load finds at config_path: no file, a document that is not
\* a mapping, or a mapping in the order of the file.
Configs ==
    {[kind |-> "missing", items |-> << >>], [kind |-> "scalar", items |-> << >>]}
    \cup {[kind |-> "mapping", items |-> s] :
             s \in {<< >>}
                   \cup {<<a>> : a \in CategoryItems("nlp", Entries)}
                   \cup {<<b>> : b \in CategoryItems("sort_options", Options)}
                   \cup {<<a, b>> : a \in CategoryItems("nlp", Entries),
                                    b \in CategoryItems("sort_options", Options)}
                   \cup {<<b, a>> : a \in CategoryItems("nlp", Entries),
                                    b \in CategoryItems("sort_options", Options)}}

\* A well-formed file, as the default config_path of the package is taken to be.
DefaultConfig ==
    [kind |-> "mapping",
     items |-> <<[category |-> "nlp", is_list |-> TRUE, entries |-> <<TaskFull>>],
                 [category |-> "sort_options", is_list |-> TRUE, entries |-> <<SortOption>>]>>]

\* self.tasks[task['tag']] = task: a dict keeps the position of a key it has.
Put(ts, task) ==
    IF \E i \in DOMAIN ts : ts[i].tag = task.tag
    THEN [i \in DOMAIN ts |-> IF ts[i].tag = task.tag THEN task ELSE ts[i]]
    ELSE Append(ts, task)

\* `for task in tasks: task['category'] = category; self.tasks[task['tag']] = task`
RECURSIVE LoadTasks(_, _, _)
LoadTasks(category, entries, acc) ==
    IF Len(entries) = 0 \/ acc.error # "none"
    THEN acc
    ELSE LET e == Head(entries)
             task == [key \in DOMAIN e \cup {"category"} |->
                          IF key = "category" THEN category ELSE e[key]]
         IN  LoadTasks(category, Tail(entries),
                       IF "tag" \in DOMAIN task
                       THEN [acc EXCEPT !.tasks = Put(@, task)]
                       ELSE [acc EXCEPT !.error = "KeyError"])

\* `{opt['value']: opt for opt in tasks}`
LoadSortOptions(opts, acc) ==
    IF \E i \in DOMAIN opts : "value" \notin DOMAIN opts[i]
    THEN [acc EXCEPT !.error = "KeyError"]
    ELSE [acc EXCEPT !.sort_options =
              [v \in {opts[i].value : i \in DOMAIN opts} |->
                  opts[CHOOSE i \in DOMAIN opts :
                           /\ opts[i].value = v
                           /\ \A j \in DOMAIN opts : j > i => opts[j].value # v]]]

\* `for category, tasks in config.items()`; iterating a scalar is a TypeError.
RECURSIVE LoadItems(_, _)
LoadItems(items, acc) ==
    IF Len(items) = 0 \/ acc.error # "none"
    THEN acc
    ELSE LET item == Head(items)
         IN  LoadItems(Tail(items),
                       IF ~item.is_list
                       THEN [acc EXCEPT !.error = "TypeError"]
                       ELSE IF item.category = "sort_options"
                       THEN LoadSortOptions(item.entries, acc)
                       ELSE LoadTasks(item.category, item.entries, acc))

\* _load_config: FileNotFoundError without the file, AttributeError on
\* `.items()` of a document that is not a mapping, else the loop.
LoadConfig(cfg) ==
    IF cfg.kind = "missing"
    THEN [error |-> "FileNotFoundError", tasks |-> << >>, sort_options |-> << >>]
    ELSE IF cfg.kind # "mapping"
    THEN [error |-> "AttributeError", tasks |-> << >>, sort_options |-> << >>]
    ELSE LoadItems(cfg.items, [error |-> "none", tasks |-> << >>, sort_options |-> << >>])

\* How a call on the TaskManager ended: the tasks it returned, or the
\* categories, or the exception it raised.
TMReturned(op, found, categories) ==
    [op |-> op, how |-> "returned", found |-> found, categories |-> categories]

TMRaised(op, error) == [op |-> op, how |-> error, found |-> << >>, categories |-> {}]

\* TaskManager.__init__: the constructor returns only if _load_config does.
TM_Init(cfg) ==
    /\ tm_pc = "new"
    /\ LET loaded == LoadConfig(cfg)
       IN  /\ config' = cfg
           /\ tm_pc' = IF loaded.error = "none" THEN "loaded" ELSE "failed"
           /\ tasks' = IF loaded.error = "none" THEN loaded.tasks ELSE << >>
           /\ sort_options' = IF loaded.error = "none" THEN loaded.sort_options ELSE << >>
           /\ tm_ret' = IF loaded.error = "none"
                        THEN TMReturned("__init__", << >>, {})
                        ELSE TMRaised("__init__", loaded.error)
    /\ UNCHANGED <<fetchVars, parseVars, crawlVars, batchVars,
                   sessionVars, detailVars, downloadVars, agentVars>>

\* The tags of the loaded catalog.
CatalogTags == {tasks[i].tag : i \in DOMAIN tasks}

\* get_task_by_tag: self.tasks.get(tag); the empty sequence stands for None.
GetTaskByTag(tag) == SelectSeq(tasks, LAMBDA task : task.tag = tag)

\* get_tasks_by_category
GetTasksByCategory(category) == SelectSeq(tasks, LAMBDA task : task.category = category)

\* get_all_categories: the categories as a set (their order is that of a set).
GetAllCategories == {tasks[i].category : i \in DOMAIN tasks}

\* The test of search_tasks on one task, with the keyword already lowered.
KeywordMatches(keyword, task) ==
    \/ IsSubstring(keyword, Lower(task.name))
    \/ IsSubstring(keyword, Lower(task.tag))
    \/ IsSubstring(keyword, Lower(IF "description" \in DOMAIN task
                                  THEN task.description ELSE << >>))

\* search_tasks: task['name'] is read for every task of the catalog.
SearchTasks(keyword) ==
    IF \E i \in DOMAIN tasks : "name" \notin DOMAIN tasks[i]
    THEN TMRaised("search_tasks", "KeyError")
    ELSE TMReturned("search_tasks",
                    SelectSeq(tasks, LAMBDA task : KeywordMatches(Lower(keyword), task)), {})

\* A lookup leaves in tm_ret what it returned or raised.
Lookup(ret) ==
    /\ tm_pc = "loaded"
    /\ tm_ret' = ret
    /\ UNCHANGED <<tm_pc, config, tasks, sort_options>>
    /\ UNCHANGED <<fetchVars, parseVars, crawlVars, batchVars,
                   sessionVars, detailVars, downloadVars, agentVars>>

TM_GetTaskByTag(tag) == Lookup(TMReturned("get_task_by_tag", GetTaskByTag(tag), {}))

TM_GetTasksByCategory(category) ==
    Lookup(TMReturned("get_tasks_by_category", GetTasksByCategory(category), {}))

TM_GetAllCategories == Lookup(TMReturned("get_all_categories", << >>, GetAllCategories))

\* Variant: search_tasks marks the tasks it matched in the catalog itself.
TM_SearchTasks_Marks(keyword) ==
    /\ tm_pc = "loaded"
    /\ tm_ret' = SearchTasks(keyword)
    /\ tasks' = [i \in DOMAIN tasks |->
                    IF "name" \in DOMAIN tasks[i] /\ KeywordMatches(Lower(keyword), tasks[i])
                    THEN [tasks[i] EXCEPT !.category = "matched"] ELSE tasks[i]]
    /\ UNCHANGED <<tm_pc, config, sort_options>>
    /\ UNCHANGED <<fetchVars, parseVars, crawlVars, batchVars,
                   sessionVars, detailVars, downloadVars, agentVars>>

TM_SearchTasks(keyword) == Lookup(SearchTasks(keyword))

\* The tags and keywords the callers ask for.
UnknownTag == <<"x">>
TaskTags == {TextClassification, UnknownTag}
Keywords == {<<"T">>, <<"d">>, <<"z">>}
Query == <<"q">>

\* No TaskManager has been constructed.
CatalogIdle ==
    /\ tm_pc = "new"
    /\ config = [kind |-> "none", items |-> << >>]
    /\ tasks = << >>
    /\ sort_options = << >>
    /\ tm_ret = [op |-> "none", how |-> "none", found |-> << >>, categories |-> {}]

\* The TaskManager a HuggingFaceCrawler constructs, loaded from the shipped file.
CatalogLoaded ==
    /\ tm_pc = "loaded"
    /\ config = DefaultConfig
    /\ tasks = LoadConfig(DefaultConfig).tasks
    /\ sort_options = LoadConfig(DefaultConfig).sort_options
    /\ tm_ret = TMReturned("__init__", << >>, {})

----------------------------------------------------------------------------
(***************************************************************************)
(* Listing crawls and the files they write                                 *)
(***************************************************************************)

\* `for model in models: if 'url' in model and not startswith('http'): urljoin`
CompleteUrls(ms) == [i \in 1..Len(ms) |-> [ms[i] EXCEPT !.url = UrlJoin(ms[i].url)]]

\* Variant: the record is replaced by the detail dict instead of updated.
Update_Replaces(r, d) == d

\* dict.update, and `paper_info['area'] = area`: the keys of `d` are added to
\* `r` or overwrite it.
Update(r, d) ==
    [key \in DOMAIN r \cup DOMAIN d |-> IF key \in DOMAIN d THEN d[key] ELSE r[key]]

\* Write `content` to `path`: open(filepath, 'w') creates the file or truncates it.
WriteFile(files, path, content) ==
    [q \in DOMAIN files \cup {path} |-> IF q = path THEN content ELSE files[q]]

FilePath(root, dir, kind, sort, n, ts) ==
    [root |-> root, dir |-> dir, kind |-> kind, sort |-> sort, n |-> n, ts |-> ts]

\* Variant: the count is written before the records are known.
Batch_StaleCount(records, at) == [count |-> 0, crawled_at |-> at, records |-> records]

\* The JSON document of a batch: count, crawled_at, the records.
Batch(records, at) == [count |-> Len(records), crawled_at |-> at, records |-> records]

\* _save_model_list: <output_dir>/<task_tag>/models_<sort>_top<len(models)>.json
SaveModelList(files, task_tag, sort, ms, at) ==
    WriteFile(files, FilePath("hf", task_tag, "models", sort, Len(ms), 0), Batch(ms, at))

\* _save_batch_result: <output_dir>/<task_tag>/models_<sort>_top<len(models)>_detailed.json
SaveBatchResult(files, task_tag, sort, ms, at) ==
    WriteFile(files, FilePath("hf", task_tag, "detailed", sort, Len(ms), 0), Batch(ms, at))

\* datetime.now().strftime("%Y%m%d_%H%M%S"): the clock cut to whole seconds.
Timestamp(at) == at \div TicksPerSecond

\* _save_paper_list: <output_dir>/<category>/papers_<timestamp>.json
SavePaperList(files, category, ps, at) ==
    WriteFile(files, FilePath("pwc", category, "papers", "", 0, Timestamp(at)), Batch(ps, at))

\* The listing pages the crawl operations meet: bare entity links, the third
\* one linking the entity of the first again.
ListingLink(i) ==
    HtmlElem("a", IF i % 2 = 1 THEN GoodHref ELSE OtherHref,
             IF i <= 2 THEN NamedText ELSE BlankText, i > 2)
ListingPages == {[i \in 1..n |-> ListingLink(i)] : n \in 0..MaxElems}

\* The papers pages: cards of the first selector, the third one linking the
\* paper of the first again; a page whose card has a title element without
\* text, and a page whose card has no title element.
ListingCard(i) == PaperElem(1, "text", TRUE, IF i % 2 = 1 THEN PaperHref1 ELSE PaperHref2)
PaperPages ==
    {[i \in 1..n |-> ListingCard(i)] : n \in 0..MaxElems}
    \cup {<<PaperElem(1, "empty", TRUE, PaperHref1)>>, <<PaperElem(1, "none", FALSE, PaperHref1)>>}

\* How an operation called at `now` ended: the list it returned, or the
\* exception it raised.
Returned(op, dir, sort, records) ==
    [op |-> op, how |-> "returned", task |-> dir, sort |-> sort, records |-> records, at |-> now]

Raised(op, dir, sort, error) ==
    [op |-> op, how |-> error, task |-> dir, sort |-> sort, records |-> << >>, at |-> now]

\* self.timeout, in seconds (the default of the constructor).
Timeout == 60

\* requests waits without limit when no timeout is passed (timeout=None).
NoTimeout == << >>

\* A request as session.get is called for it.
Request(op, target, timeout) == [op |-> op, target |-> target, timeout |-> timeout]

\* Variant: a failed listing fetch is logged and an empty list is saved and returned.
CrawlModelsByTask_Swallows(task_tag, sort, k, fetched, page) ==
    IF GetTaskByTag(task_tag) = << >>
    THEN /\ c_ret' = Raised("crawl_models_by_task", task_tag, sort, "ValueError")
         /\ sent' = {}
         /\ UNCHANGED <<fs, now>>
    ELSE IF "name" \notin DOMAIN GetTaskByTag(task_tag)[1]
    THEN /\ c_ret' = Raised("crawl_models_by_task", task_tag, sort, "KeyError")
         /\ sent' = {}
         /\ UNCHANGED <<fs, now>>
    ELSE LET ms == IF fetched THEN CompleteUrls(ParseModelList(page, k)) ELSE << >>
         IN  /\ sent' = {Request("crawl_models_by_task", task_tag, NoTimeout)}
             /\ fs' = SaveModelList(fs, task_tag, sort, ms, now)
             /\ now' = now + 1
             /\ c_ret' = Returned("crawl_models_by_task", task_tag, sort, ms)

\* Variant: the tag is looked up only after the listing request was sent.
CrawlModelsByTask_ChecksLate(task_tag, sort, k, fetched, page) ==
    /\ sent' = {Request("crawl_models_by_task", task_tag, NoTimeout)}
    /\ now' = now + 1
    /\ IF GetTaskByTag(task_tag) = << >>
       THEN /\ c_ret' = Raised("crawl_models_by_task", task_tag, sort, "ValueError")
            /\ UNCHANGED fs
       ELSE IF "name" \notin DOMAIN GetTaskByTag(task_tag)[1]
       THEN /\ c_ret' = Raised("crawl_models_by_task", task_tag, sort, "KeyError")
            /\ UNCHANGED fs
       ELSE IF ~fetched
       THEN /\ c_ret' = Raised("crawl_models_by_task", task_tag, sort, "FetchError")
            /\ UNCHANGED fs
       ELSE LET ms == CompleteUrls(ParseModelList(page, k))
            IN  /\ fs' = SaveModelList(fs, task_tag, sort, ms, now)
                /\ c_ret' = Returned("crawl_models_by_task", task_tag, sort, ms)

\* crawl_models_by_task: ValueError for an unknown tag; KeyError when the log
\* line reads the name of a task that has none; then
\* self.session.get(url, params=params), without a timeout; any failure of the
\* listing fetch is logged and raised again; otherwise parse, complete the
\* urls, save the list, return it.
CrawlModelsByTask(task_tag, sort, k, fetched, page) ==
    IF GetTaskByTag(task_tag) = << >>
    THEN /\ c_ret' = Raised("crawl_models_by_task", task_tag, sort, "ValueError")
         /\ sent' = {}
         /\ UNCHANGED <<fs, now>>
    ELSE IF "name" \notin DOMAIN GetTaskByTag(task_tag)[1]
    THEN /\ c_ret' = Raised("crawl_models_by_task", task_tag, sort, "KeyError")
         /\ sent' = {}
         /\ UNCHANGED <<fs, now>>
    ELSE IF ~fetched
    THEN /\ c_ret' = Raised("crawl_models_by_task", task_tag, sort, "FetchError")
         /\ sent' = {Request("crawl_models_by_task", task_tag, NoTimeout)}
         /\ now' = now + 1
         /\ UNCHANGED fs
    ELSE LET ms == CompleteUrls(ParseModelList(page, k))
         IN  /\ sent' = {Request("crawl_models_by_task", task_tag, NoTimeout)}
             /\ fs' = SaveModelList(fs, task_tag, sort, ms, now)
             /\ now' = now + 1
             /\ c_ret' = Returned("crawl_models_by_task", task_tag, sort, ms)

HF_CrawlModelsByTask(task_tag, sort, k, fetched, page) ==
    /\ tm_pc = "loaded"
    /\ now < MaxTicks
    /\ CrawlModelsByTask(task_tag, sort, k, fetched, page)
    /\ UNCHANGED <<fetchVars, parseVars, batchVars, catalogVars,
                   sessionVars, detailVars, downloadVars, agentVars>>

\* search_models: as crawl_models_by_task (the same session.get without a
\* timeout) without the catalog lookup and without a save.
HF_SearchModels(query, k, fetched, page) ==
    /\ now < MaxTicks
    /\ now' = now + 1
    /\ c_ret' = IF ~fetched
                THEN Raised("search_models", query, "", "FetchError")
                ELSE Returned("search_models", query, "", CompleteUrls(ParseModelList(page, k)))
    /\ sent' = {Request("search_models", query, NoTimeout)}
    /\ UNCHANGED fs
    /\ UNCHANGED <<fetchVars, parseVars, batchVars, catalogVars,
                   sessionVars, detailVars, downloadVars, agentVars>>

\* crawl_trending_papers / search_papers / crawl_papers_by_area: fetch with
\* retry (a failure is logged and raised again), pick the cards, parse the
\* first top_k, add the fields of `extra` to each, save under the category.
PWC_CrawlListing(op, category, extra, k, fetched, page) ==
    /\ now < MaxTicks
    /\ now' = now + 1
    /\ sent' = {Request(op, category, <<Timeout>>)}
    /\ IF ~fetched
       THEN /\ c_ret' = Raised(op, << >>, "", "FetchError")
            /\ UNCHANGED fs
       ELSE LET found == ParsePaperListing(page, k)
                ps == [i \in 1..Len(found) |-> Update(found[i], extra)]
            IN  /\ fs' = SavePaperList(fs, category, ps, now)
                /\ c_ret' = Returned(op, << >>, "", ps)
    /\ UNCHANGED <<fetchVars, parseVars, batchVars, catalogVars,
                   sessionVars, detailVars, downloadVars, agentVars>>

PWC_CrawlTrendingPapers(k, fetched, page) ==
    PWC_CrawlListing("crawl_trending_papers", <<"trending">>, << >>, k, fetched, page)

\* crawl_papers_by_area: paper_info['area'] = area; category f"{area}_{sort}".
PWC_CrawlPapersByArea(area, sort, k, fetched, page) ==
    PWC_CrawlListing("crawl_papers_by_area", <<area, "_", sort>>, [area |-> area],
                     k, fetched, page)

PWC_SearchPapers(query, k, fetched, page) ==
    PWC_CrawlListing("search_papers", <<"search_">> \o query, << >>, k, fetched, page)

\* Time passes between two operations.
Tick ==
    /\ now < MaxTicks
    /\ now' = now + 1
    /\ UNCHANGED <<fs, c_ret, sent>>
    /\ UNCHANGED <<fetchVars, parseVars, batchVars, catalogVars,
                   sessionVars, detailVars, downloadVars, agentVars>>

CrawlIdle ==
    /\ fs = << >>
    /\ now = 0
    /\ c_ret = [op |-> "none", how |-> "none", task |-> << >>, sort |-> "", records |-> << >>, at |-> 0]
    /\ sent = {}

----------------------------------------------------------------------------
(***************************************************************************)
(* Batch enrichment: crawl_papers_batch and crawl_models_batch             *)
(***************************************************************************)

\* The key of a listing record a detail task is keyed on.
IdKey(s) == IF s = "hf" THEN "model_id" ELSE "url"

\* What crawl_paper_details returns for a paper url: the url (joined to base_url
\* when it does not start with 'http') and crawled_at always, the title of the
\* page's h1.
PaperDetails(url) == [url |-> UrlJoin(url), crawled_at |-> "t", title |-> "detail"]

\* What crawl_model_card returns: parse_model_card's dict (model_id, model_card)
\* with url = base_url/model_id and crawled_at set.
ModelCard(model_id) ==
    [model_id |-> model_id, model_card |-> "card",
     url |-> <<"h", "/">> \o model_id, crawled_at |-> "t"]

\* str.replace(old, new) on a string of characters.
Replace(str, old, new) == [i \in 1..Len(str) |-> IF str[i] = old THEN new ELSE str[i]]

\* model_dir = self.output_dir / "model_cards" / model_id.replace('/', '_')
ModelCardDir(model_id) == <<"model_cards", Replace(model_id, "/", "_")>>

\* _save_model_card: model_cards/<model_id with '/' replaced by '_'>/metadata.json,
\* and README.md beside it when the dict has a model_card.
SaveModelCard(files, model_id, model_info) ==
    LET model_dir == ModelCardDir(model_id)
        meta == WriteFile(files, FilePath("hf", model_dir, "metadata", "", 0, 0), model_info)
    IN  IF "model_card" \in DOMAIN model_info
        THEN WriteFile(meta, FilePath("hf", model_dir, "README", "", 0, 0), model_info.model_card)
        ELSE meta

\* The dict comprehension: one executor.submit per record that has the key,
\* in list order.
Submitted(s, recs) ==
    LET idx == SelectSeq([i \in 1..Len(recs) |-> i], LAMBDA i : IdKey(s) \in DOMAIN recs[i])
    IN  [t \in 1..Len(idx) |-> [rec |-> idx[t], st |-> "pending", arg |-> recs[idx[t]][IdKey(s)]]]

Running(f) == {t \in DOMAIN f : f[t].st = "running"}
Done(f) == {t \in DOMAIN f : f[t].st \in {"ok", "err", "cancelled"}}

\* Variant: a task that raises cancels the tasks still waiting in the queue.
TaskRaised_CancelsPending(f, t) ==
    [u \in DOMAIN f |->
        IF u = t THEN [f[u] EXCEPT !.st = "err"]
        ELSE IF f[u].st = "pending" THEN [f[u] EXCEPT !.st = "cancelled"]
        ELSE f[u]]

\* A worker's task raised: the exception is stored in its own future.
TaskRaised(f, t) == [f EXCEPT ![t].st = "err"]

\* Variant: a failed record is logged and left out.
OnFailure_Drops(out, i) == out

\* `except Exception: logger.error(..); detailed_papers.append(paper)`
OnFailure(out, i) == Append(out, i)

\* The records a list of references stands for.
Deref(refs, heap) == [n \in 1..Len(refs) |-> heap[refs[n]]]

\* crawl_papers_batch(papers, fetch_details): the list itself comes back when
\* no details are wanted, otherwise every record with a url is submitted.
PWC_Batch_Begin(recs, fetch_details, workers) ==
    /\ b_pc = "idle"
    /\ b_site' = "pwc"
    /\ b_in' = recs
    /\ obj' = recs
    /\ max_workers' = workers
    /\ collected' = {}
    /\ IF fetch_details
       THEN /\ b_pc' = "pool"
            /\ fut' = Submitted("pwc", recs)
            /\ detailed' = << >>
       ELSE /\ b_pc' = "returned"
            /\ fut' = << >>
            /\ detailed' = [i \in 1..Len(recs) |-> i]
    /\ sent' = {}
    /\ UNCHANGED <<fs, now, c_ret>>
    /\ UNCHANGED <<fetchVars, parseVars, catalogVars, sessionVars,
                   detailVars, downloadVars, agentVars>>

\* crawl_models_batch: the listing crawl first (its failure is the batch's),
\* then as for the papers, keyed on model_id.
HF_Batch_Begin(task_tag, sort, k, fetched, page, fetch_details, workers) ==
    /\ b_pc = "idle"
    /\ tm_pc = "loaded"
    /\ CrawlModelsByTask(task_tag, sort, k, fetched, page)
    /\ b_site' = "hf"
    /\ max_workers' = workers
    /\ collected' = {}
    /\ b_in' = c_ret'.records
    /\ obj' = c_ret'.records
    /\ IF c_ret'.how # "returned"
       THEN /\ b_pc' = "raised"
            /\ fut' = << >>
            /\ detailed' = << >>
       ELSE IF fetch_details
       THEN /\ b_pc' = "pool"
            /\ fut' = Submitted("hf", c_ret'.records)
            /\ detailed' = << >>
       ELSE /\ b_pc' = "returned"
            /\ fut' = << >>
            /\ detailed' = [i \in 1..Len(c_ret'.records) |-> i]
    /\ UNCHANGED <<fetchVars, parseVars, catalogVars, sessionVars,
                   detailVars, downloadVars, agentVars>>

\* Variant: the pool starts a thread for every submitted task.
PoolHasIdleThread_Always(f, workers) == TRUE

\* ThreadPoolExecutor(max_workers=self.max_workers): a task leaves the queue
\* only when fewer than max_workers threads are busy.
PoolHasIdleThread(f, workers) == Cardinality(Running(f)) < workers

\* The request of a detail task: crawl_model_card calls self.session.get(url)
\* without a timeout, crawl_paper_details goes through _get_with_retry.
DetailRequest(s, arg) ==
    IF s = "hf"
    THEN Request("crawl_model_card", arg, NoTimeout)
    ELSE Request("crawl_paper_details", arg, <<Timeout>>)

\* A pool thread takes the oldest waiting task and sends its request; at most
\* max_workers threads exist.
Worker_Start(t) ==
    /\ b_pc = "pool"
    /\ t \in DOMAIN fut
    /\ fut[t].st = "pending"
    /\ \A u \in 1..(t - 1) : fut[u].st # "pending"
    /\ PoolHasIdleThread(fut, max_workers)
    /\ fut' = [fut EXCEPT ![t].st = "running"]
    /\ sent' = sent \cup {DetailRequest(b_site, fut[t].arg)}
    /\ UNCHANGED <<fs, now, c_ret>>
    /\ UNCHANGED <<b_pc, b_site, b_in, obj, collected, detailed, max_workers>>
    /\ UNCHANGED <<fetchVars, parseVars, catalogVars, sessionVars,
                   detailVars, downloadVars, agentVars>>

\* crawl_paper_details / crawl_model_card of task t returns its dict (the model
\* card is saved first) or raises.
Worker_Finish(t, ok) ==
    /\ b_pc = "pool"
    /\ t \in DOMAIN fut
    /\ fut[t].st = "running"
    /\ fut' = IF ok THEN [fut EXCEPT ![t].st = "ok"] ELSE TaskRaised(fut, t)
    /\ fs' = IF ok /\ b_site = "hf"
             THEN SaveModelCard(fs, fut[t].arg, ModelCard(fut[t].arg))
             ELSE fs
    /\ UNCHANGED <<now, c_ret, sent>>
    /\ UNCHANGED <<b_pc, b_site, b_in, obj, collected, detailed, max_workers>>
    /\ UNCHANGED <<fetchVars, parseVars, catalogVars, sessionVars,
                   detailVars, downloadVars, agentVars>>

\* The dict future.result() returns for a task that succeeded.
ResultOf(s, f) == IF s = "hf" THEN ModelCard(f.arg) ELSE PaperDetails(f.arg)

\* One turn of `for future in as_completed(..)`: a finished future not yet
\* yielded; its record is updated with the details and appended, or appended
\* as it is when future.result() raises.
Batch_Collect(t) ==
    /\ b_pc = "pool"
    /\ t \in Done(fut) \ collected
    /\ collected' = collected \cup {t}
    /\ LET i == fut[t].rec
       IN  IF fut[t].st = "ok"
           THEN /\ obj' = [obj EXCEPT ![i] = Update(obj[i], ResultOf(b_site, fut[t]))]
                /\ detailed' = Append(detailed, i)
           ELSE /\ obj' = obj
                /\ detailed' = OnFailure(detailed, i)
    /\ UNCHANGED <<b_pc, b_site, b_in, fut, max_workers>>
    /\ UNCHANGED <<fetchVars, parseVars, crawlVars, catalogVars,
                   sessionVars, detailVars, downloadVars, agentVars>>

\* as_completed is exhausted and the `with` block is left (shutdown waits for
\* the pool); crawl_models_batch saves the batch result; the list is returned.
Batch_Return ==
    /\ b_pc = "pool"
    /\ collected = DOMAIN fut
    /\ Running(fut) = {}
    /\ b_pc' = "returned"
    /\ IF b_site = "hf"
       THEN /\ fs' = SaveBatchResult(fs, c_ret.task, c_ret.sort, Deref(detailed, obj), now)
            /\ now' = now + 1
       ELSE UNCHANGED <<fs, now>>
    /\ UNCHANGED <<c_ret, sent>>
    /\ UNCHANGED <<b_site, b_in, obj, fut, collected, detailed, max_workers>>
    /\ UNCHANGED <<fetchVars, parseVars, catalogVars, sessionVars,
                   detailVars, downloadVars, agentVars>>

\* The records a caller hands to crawl_papers_batch: a listing record (title,
\* url, selector), a record whose url is relative, a record that lacks the url.
PaperInputs ==
    UNION {[1..n -> {[title |-> "text", url |-> UrlJoin(PaperHref1), by |-> 1],
                     [title |-> "text", url |-> PaperHref2],
                     [title |-> "text"]}] : n \in 0..MaxRecs}

BatchIdle ==
    /\ b_pc = "idle"
    /\ b_site = "none"
    /\ b_in = << >>
    /\ obj = << >>
    /\ fut = << >>
    /\ collected = {}
    /\ detailed = << >>
    /\ max_workers = 1

\* The listing operations, one after the other.
CrawlNext ==
    \/ \E k \in 1..MaxTopK, fetched \in BOOLEAN, page \in ListingPages, t \in TaskTags :
          HF_CrawlModelsByTask(t, "trending", k, fetched, page)
    \/ \E k \in 1..MaxTopK, fetched \in BOOLEAN, page \in PaperPages :
          PWC_CrawlTrendingPapers(k, fetched, page)
    \/ \E k \in 1..MaxTopK, fetched \in BOOLEAN, page \in PaperPages :
          PWC_SearchPapers(Query, k, fetched, page)
    \/ \E k \in 1..MaxTopK, fetched \in BOOLEAN, page \in PaperPages :
          PWC_CrawlPapersByArea("cv", "trending", k, fetched, page)
    \/ \E k \in 1..MaxTopK, fetched \in BOOLEAN, page \in ListingPages :
          HF_SearchModels(Query, k, fetched, page)
    \/ Tick

\* No operation of the crawlers has been called yet.
NoCallYet == b_pc = "idle" /\ c_ret.op = "none"

\* One call of a listing operation.
Call_Listing ==
    /\ NoCallYet
    /\ \E k \in 1..MaxTopK, fetched \in BOOLEAN :
          \/ \E page \in ListingPages, t \in TaskTags :
                HF_CrawlModelsByTask(t, "trending", k, fetched, page)
          \/ \E page \in ListingPages : HF_SearchModels(Query, k, fetched, page)
          \/ \E page \in PaperPages : PWC_CrawlTrendingPapers(k, fetched, page)
          \/ \E page \in PaperPages : PWC_CrawlPapersByArea("cv", "trending", k, fetched, page)
          \/ \E page \in PaperPages : PWC_SearchPapers(Query, k, fetched, page)

\* One call of crawl_models_batch.
Call_ModelsBatch ==
    /\ NoCallYet
    /\ \E t \in TaskTags, k \in 1..MaxTopK, fetched \in BOOLEAN, page \in ListingPages,
          fd \in BOOLEAN, w \in 1..MaxWorkers :
          HF_Batch_Begin(t, "trending", k, fetched, page, fd, w)

\* One call of any operation that starts with a listing fetch, followed to its end.
CallNext ==
    \/ Call_Listing
    \/ Call_ModelsBatch
    \/ \E t \in 1..MaxElems : Worker_Start(t)
    \/ \E t \in 1..MaxElems, ok \in BOOLEAN : Worker_Finish(t, ok)
    \/ \E t \in 1..MaxElems : Batch_Collect(t)
    \/ Batch_Return

BatchNext ==
    \/ \E recs \in PaperInputs, fd \in BOOLEAN, w \in 1..MaxWorkers :
          PWC_Batch_Begin(recs, fd, w)
    \/ \E t \in TaskTags, k \in 1..MaxTopK, fetched \in BOOLEAN, page \in ListingPages,
          fd \in BOOLEAN, w \in 1..MaxWorkers :
          HF_Batch_Begin(t, "trending", k, fetched, page, fd, w)
    \/ \E t \in 1..(MaxRecs + MaxElems) : Worker_Start(t)
    \/ \E t \in 1..(MaxRecs + MaxElems), ok \in BOOLEAN : Worker_Finish(t, ok)
    \/ \E t \in 1..(MaxRecs + MaxElems) : Batch_Collect(t)
    \/ Batch_Return

----------------------------------------------------------------------------
(***************************************************************************)
(* Detail pages: parse_model_card and crawl_paper_details                  *)
(***************************************************************************)

\* Matching links of one kind on a detail page.
MaxLinks == 3

\* A container of a model page: not in the page, in the page without text,
\* or in the page with text. The 'Model Card|README' text node is absent, has
\* no div or section above it, or has one (whose text then holds the node).
ModelPages ==
    [card : {"absent", "empty", "text"},
     readme : {"absent", "noparent", "text"},
     main : {"absent", "empty", "text"},
     files_section : BOOLEAN,
     file_links : 0..MaxLinks]

\* A paper page: its links to github repositories by owner/name, in document
\* order, and the rows of its implementations section that carry something.
PaperDetailPages ==
    [github_links : UNION {[1..n -> 1..MaxLinks] : n \in 0..MaxLinks},
     impl_section : BOOLEAN,
     impl_rows : 0..MaxLinks]

\* elem.get_text('\n', strip=True) of a container found in the page.
GetText(state, text) == IF state = "empty" THEN "" ELSE text

\* _extract_model_card: the first container that is found decides; a Tag is
\* true whatever it holds. "None" is the None of the last line.
ExtractModelCard(page) ==
    IF page.card # "absent" THEN GetText(page.card, "card")
    ELSE IF page.readme = "text" THEN "readme"
    ELSE IF page.main # "absent" THEN GetText(page.main, "main")
    ELSE "None"

\* _extract_files: every matching link of the files section.
ExtractFiles(page) ==
    IF page.files_section
    THEN [i \in 1..page.file_links |-> [name |-> i, url |-> i]]
    ELSE << >>

\* parse_model_card: the id, and each part only if what was extracted is
\* truthy (metadata and stats, built the same way, are left out).
ParseModelCard(page, model_id) ==
    LET content == ExtractModelCard(page)
        files == ExtractFiles(page)
        with_card == IF content \notin {"None", ""} THEN {"model_card"} ELSE {}
        with_files == IF Len(files) > 0 THEN {"files"} ELSE {}
    IN  [key \in {"model_id"} \cup with_card \cup with_files |->
            IF key = "model_id" THEN model_id
            ELSE IF key = "model_card" THEN content
            ELSE files]

\* The `seen` loop: the first occurrence of each full_name is kept.
RECURSIVE Unique(_)
Unique(names) ==
    IF Len(names) = 0 THEN << >>
    ELSE LET init == Unique(SubSeq(names, 1, Len(names) - 1))
             last == names[Len(names)]
         IN  IF \E i \in DOMAIN init : init[i] = last THEN init ELSE Append(init, last)

\* _extract_github_repos: every github link, then the `seen` loop.
ExtractGithubRepos(page) ==
    LET names == Unique(page.github_links)
    IN  [i \in 1..Len(names) |-> [full_name |-> names[i]]]

\* _extract_implementations: every row of the section that carries something.
ExtractImplementations(page) ==
    IF page.impl_section
    THEN [i \in 1..page.impl_rows |-> [title |-> i]]
    ELSE << >>

\* parse_model_card on the page of a model.
Detail_ParseModelCard ==
    /\ d_pc = "ready"
    /\ d_site = "hf"
    /\ d_pc' = "done"
    /\ d_info' = ParseModelCard(d_page, "m")
    /\ UNCHANGED <<d_site, d_page>>
    /\ UNCHANGED <<fetchVars, parseVars, crawlVars, batchVars,
                   catalogVars, sessionVars, downloadVars, agentVars>>

\* The sub-resource lists crawl_paper_details puts in paper_details.
Detail_ParsePaper ==
    /\ d_pc = "ready"
    /\ d_site = "pwc"
    /\ d_pc' = "done"
    /\ d_info' = [github_repos |-> ExtractGithubRepos(d_page),
                  implementations |-> ExtractImplementations(d_page)]
    /\ UNCHANGED <<d_site, d_page>>
    /\ UNCHANGED <<fetchVars, parseVars, crawlVars, batchVars,
                   catalogVars, sessionVars, downloadVars, agentVars>>

\* No detail page is being parsed.
DetailIdle ==
    /\ d_pc = "idle"
    /\ d_site = "none"
    /\ d_page = << >>
    /\ d_info = << >>

\* A detail page has been fetched.
DetailInit ==
    /\ d_pc = "ready"
    /\ \/ d_site = "hf" /\ d_page \in ModelPages
       \/ d_site = "pwc" /\ d_page \in PaperDetailPages
    /\ d_info = << >>

DetailNext ==
    \/ Detail_ParseModelCard
    \/ Detail_ParsePaper

----------------------------------------------------------------------------
(***************************************************************************)
(* PaperDownloader.download_from_url                                       *)
(***************************************************************************)

\* The documents asked for; each url has its own save_path.
Urls == {"u1", "u2"}

\* The length of a document, in chunks of iter_content.
MaxChunks == 2

NoFile == [exists |-> FALSE, chunks |-> 0]

\* open(save_path, 'wb') and `chunks` calls of f.write.
Written(chunks) == [exists |-> TRUE, chunks |-> chunks]

\* What one attempt comes to: the request fails (timeout, connection error,
\* an HTTP error of raise_for_status), or the response is streamed and the
\* stream delivers some chunks, all of them if nothing breaks.
DownloadOutcomes ==
    [k : {"timeout", "http", "notfound"}, chunks : {0}]
    \cup [k : {"stream"}, chunks : 0..MaxChunks]

\* download_from_url up to the loop: an existing file at save_path is
\* returned as it is.
Download_Call(url) ==
    /\ dl_pc \in {"idle", "done"}
    /\ dl_url' = url
    /\ dl_attempt' = 0
    /\ IF disk[url].exists
       THEN /\ dl_pc' = "done"
            /\ dl_ret' = "path"
       ELSE /\ dl_pc' = "try"
            /\ dl_ret' = "none"
    /\ UNCHANGED <<dl_max_retries, disk>>
    /\ UNCHANGED <<fetchVars, parseVars, crawlVars, batchVars,
                   catalogVars, sessionVars, detailVars, agentVars>>

\* One iteration of the loop: the request, then open(save_path, 'wb') and the
\* chunk loop; a stream that breaks raises inside the `with` block and leaves
\* the file with what was written. Every except clause returns None on the
\* last attempt (and on 404), else the loop goes on.
Download_Attempt(o) ==
    /\ dl_pc = "try"
    /\ disk' = IF o.k = "stream" THEN [disk EXCEPT ![dl_url] = Written(o.chunks)] ELSE disk
    /\ IF o.k = "stream" /\ o.chunks = MaxChunks
       THEN /\ dl_pc' = "done"
            /\ dl_ret' = "path"
            /\ UNCHANGED dl_attempt
       ELSE IF o.k = "notfound" \/ dl_attempt = dl_max_retries
       THEN /\ dl_pc' = "done"
            /\ dl_ret' = "None"
            /\ UNCHANGED dl_attempt
       ELSE /\ dl_attempt' = dl_attempt + 1
            /\ UNCHANGED <<dl_pc, dl_ret>>
    /\ UNCHANGED <<dl_max_retries, dl_url>>
    /\ UNCHANGED <<fetchVars, parseVars, crawlVars, batchVars,
                   catalogVars, sessionVars, detailVars, agentVars>>

\* No downloader is in use.
DownloadIdle ==
    /\ dl_pc = "idle"
    /\ dl_max_retries = 0
    /\ dl_url = "none"
    /\ dl_attempt = 0
    /\ disk = [url \in Urls |-> NoFile]
    /\ dl_ret = "none"

\* A downloader constructed with max_retries on an empty output directory.
DownloadInit ==
    /\ dl_pc = "idle"
    /\ dl_max_retries \in 0..MaxRetries
    /\ dl_url = "none"
    /\ dl_attempt = 0
    /\ disk = [url \in Urls |-> NoFile]
    /\ dl_ret = "none"

DownloadNext ==
    \/ \E url \in Urls : Download_Call(url)
    \/ \E o \in DownloadOutcomes : Download_Attempt(o)

----------------------------------------------------------------------------
(***************************************************************************)
(* AutoForgeAgent: the workflow stages and run_full_pipeline               *)
(***************************************************************************)

\* The keys of self.workflow_state, in the order __init__ lists them.
Slots ==
    <<"requirement_analysis", "model_search", "dataset_design", "experiment_design",
      "final_analysis">>

\* The value None of a slot.
NoneSlot == [status |-> "None"]

\* The value None of an argument, and the texts a caller passes or the
\* language model answers.
NoneArg == "None"
Texts == {"t1", "t2"}

\* What a call of an analyzer comes to: call_llm returns the answer of the
\* language model, or raises (no client configured, the client failed).
AnalyzerOutcomes == [k : {"ok"}, r : Texts] \cup {[k |-> "raises", r |-> NoneArg]}

\* The dict each analyzer returns around the answer.
RequirementAnalysis(r) == [status |-> "success", analysis |-> r]
ModelSearch(r) == [status |-> "success", search_result |-> r]
DatasetDesign(r) == [status |-> "success", design_result |-> r]
ExperimentDesign(r) == [status |-> "success", design_result |-> r]
FinalAnalysis(r) == [status |-> "success", analysis_result |-> r]

\* How a stage ended: it returned the dict of its analyzer, it raised the
\* ValueError of a missing prerequisite, or the exception of its analyzer went
\* through it. `args` are the inputs as the caller gave them, `passed` is what
\* the analyzer was called with.
StageReturned(op, args, passed) == [op |-> op, k |-> "returned", args |-> args, passed |-> passed]
StageValueError(op, args) == [op |-> op, k |-> "ValueError", args |-> args, passed |-> << >>]
StageRaised(op, args, passed) == [op |-> op, k |-> "raised", args |-> args, passed |-> passed]

\* result = analyzer.analyze(...); self.workflow_state[slot] = result
AnalyzeAndStore(op, slot, args, passed, o, result) ==
    IF o.k = "ok"
    THEN /\ workflow_state' = [workflow_state EXCEPT ![slot] = result]
         /\ a_ret' = StageReturned(op, args, passed)
    ELSE /\ a_ret' = StageRaised(op, args, passed)
         /\ UNCHANGED workflow_state

\* analyze_requirements
AnalyzeRequirements(document_content, o) ==
    AnalyzeAndStore("analyze_requirements", "requirement_analysis",
                    <<document_content>>, <<document_content>>, o, RequirementAnalysis(o.r))

\* search_models
SearchModels(requirement_analysis, o) ==
    LET args == <<requirement_analysis>> IN
    IF requirement_analysis = NoneArg /\ workflow_state["requirement_analysis"] = NoneSlot
    THEN /\ a_ret' = StageValueError("search_models", args)
         /\ UNCHANGED workflow_state
    ELSE LET ra == IF requirement_analysis = NoneArg
                   THEN workflow_state["requirement_analysis"].analysis
                   ELSE requirement_analysis
         IN  AnalyzeAndStore("search_models", "model_search", args, <<ra>>, o,
                             ModelSearch(o.r))

\* design_dataset, with its second guard left out: the None of the slot is
\* subscripted.
DesignDataset_ReadsUnchecked(requirement_analysis, selected_models, o) ==
    LET args == <<requirement_analysis, selected_models>> IN
    IF requirement_analysis = NoneArg /\ workflow_state["requirement_analysis"] = NoneSlot
    THEN /\ a_ret' = StageValueError("design_dataset", args)
         /\ UNCHANGED workflow_state
    ELSE IF selected_models = NoneArg /\ workflow_state["model_search"] = NoneSlot
    THEN /\ a_ret' = StageRaised("design_dataset", args, << >>)
         /\ UNCHANGED workflow_state
    ELSE LET ra == IF requirement_analysis = NoneArg
                   THEN workflow_state["requirement_analysis"].analysis
                   ELSE requirement_analysis
             sm == IF selected_models = NoneArg
                   THEN workflow_state["model_search"].search_result
                   ELSE selected_models
         IN  AnalyzeAndStore("design_dataset", "dataset_design", args, <<ra, sm>>, o,
                             DatasetDesign(o.r))

\* design_dataset
DesignDataset(requirement_analysis, selected_models, o) ==
    LET args == <<requirement_analysis, selected_models>> IN
    IF requirement_analysis = NoneArg /\ workflow_state["requirement_analysis"] = NoneSlot
    THEN /\ a_ret' = StageValueError("design_dataset", args)
         /\ UNCHANGED workflow_state
    ELSE IF selected_models = NoneArg /\ workflow_state["model_search"] = NoneSlot
    THEN /\ a_ret' = StageValueError("design_dataset", args)
         /\ UNCHANGED workflow_state
    ELSE LET ra == IF requirement_analysis = NoneArg
                   THEN workflow_state["requirement_analysis"].analysis
                   ELSE requirement_analysis
             sm == IF selected_models = NoneArg
                   THEN workflow_state["model_search"].search_result
                   ELSE selected_models
         IN  AnalyzeAndStore("design_dataset", "dataset_design", args, <<ra, sm>>, o,
                             DatasetDesign(o.r))

\* design_experiments
DesignExperiments(model_solution, dataset_info, o) ==
    LET args == <<model_solution, dataset_info>> IN
    IF model_solution = NoneArg /\ workflow_state["model_search"] = NoneSlot
    THEN /\ a_ret' = StageValueError("design_experiments", args)
         /\ UNCHANGED workflow_state
    ELSE IF dataset_info = NoneArg /\ workflow_state["dataset_design"] = NoneSlot
    THEN /\ a_ret' = StageValueError("design_experiments", args)
         /\ UNCHANGED workflow_state
    ELSE LET ms == IF model_solution = NoneArg
                   THEN workflow_state["model_search"].search_result
                   ELSE model_solution
             di == IF dataset_info = NoneArg
                   THEN workflow_state["dataset_design"].design_result
                   ELSE dataset_info
         IN  AnalyzeAndStore("design_experiments", "experiment_design", args, <<ms, di>>, o,
                             ExperimentDesign(o.r))

\* analyze_results
AnalyzeResults(experiment_reports, o) ==
    AnalyzeAndStore("analyze_results", "final_analysis",
                    <<experiment_reports>>, <<experiment_reports>>, o, FinalAnalysis(o.r))

\* The stages as the user of the agent calls them, one at a time.
Agent_AnalyzeRequirements(document_content, o) ==
    /\ pl_pc = "idle"
    /\ AnalyzeRequirements(document_content, o)
    /\ UNCHANGED <<pl_pc, pl_ret>>
    /\ UNCHANGED <<fetchVars, parseVars, crawlVars, batchVars,
                   catalogVars, sessionVars, detailVars, downloadVars>>

Agent_SearchModels(requirement_analysis, o) ==
    /\ pl_pc = "idle"
    /\ SearchModels(requirement_analysis, o)
    /\ UNCHANGED <<pl_pc, pl_ret>>
    /\ UNCHANGED <<fetchVars, parseVars, crawlVars, batchVars,
                   catalogVars, sessionVars, detailVars, downloadVars>>

Agent_DesignDataset(requirement_analysis, selected_models, o) ==
    /\ pl_pc = "idle"
    /\ DesignDataset(requirement_analysis, selected_models, o)
    /\ UNCHANGED <<pl_pc, pl_ret>>
    /\ UNCHANGED <<fetchVars, parseVars, crawlVars, batchVars,
                   catalogVars, sessionVars, detailVars, downloadVars>>

Agent_DesignExperiments(model_solution, dataset_info, o) ==
    /\ pl_pc = "idle"
    /\ DesignExperiments(model_solution, dataset_info, o)
    /\ UNCHANGED <<pl_pc, pl_ret>>
    /\ UNCHANGED <<fetchVars, parseVars, crawlVars, batchVars,
                   catalogVars, sessionVars, detailVars, downloadVars>>

Agent_AnalyzeResults(experiment_reports, o) ==
    /\ pl_pc = "idle"
    /\ AnalyzeResults(experiment_reports, o)
    /\ UNCHANGED <<pl_pc, pl_ret>>
    /\ UNCHANGED <<fetchVars, parseVars, crawlVars, batchVars,
                   catalogVars, sessionVars, detailVars, downloadVars>>

\* The stages of run_full_pipeline, in the order it calls them.
PipelineStages ==
    <<"analyze_requirements", "search_models", "design_dataset", "design_experiments">>

\* Where run_full_pipeline goes after the stage at position i: to the next
\* stage, to generate_final_report after the last one, or out of the call
\* with the exception of the stage.
PipelineAfter(i, ret) ==
    IF ret.k # "returned" THEN "idle"
    ELSE IF i < Len(PipelineStages) THEN PipelineStages[i + 1]
    ELSE "generate_final_report"

\* run_full_pipeline up to the return of analyze_requirements.
RunFullPipeline_Call(document_content, o) ==
    /\ pl_pc = "idle"
    /\ AnalyzeRequirements(document_content, o)
    /\ pl_pc' = PipelineAfter(1, a_ret')
    /\ pl_ret' = IF a_ret'.k = "returned" THEN "running" ELSE "raised"
    /\ UNCHANGED <<fetchVars, parseVars, crawlVars, batchVars,
                   catalogVars, sessionVars, detailVars, downloadVars>>

\* self.search_models()
RunFullPipeline_SearchModels(o) ==
    /\ pl_pc = "search_models"
    /\ SearchModels(NoneArg, o)
    /\ pl_pc' = PipelineAfter(2, a_ret')
    /\ pl_ret' = IF a_ret'.k = "returned" THEN "running" ELSE "raised"
    /\ UNCHANGED <<fetchVars, parseVars, crawlVars, batchVars,
                   catalogVars, sessionVars, detailVars, downloadVars>>

\* self.design_dataset()
RunFullPipeline_DesignDataset(o) ==
    /\ pl_pc = "design_dataset"
    /\ DesignDataset(NoneArg, NoneArg, o)
    /\ pl_pc' = PipelineAfter(3, a_ret')
    /\ pl_ret' = IF a_ret'.k = "returned" THEN "running" ELSE "raised"
    /\ UNCHANGED <<fetchVars, parseVars, crawlVars, batchVars,
                   catalogVars, sessionVars, detailVars, downloadVars>>

\* self.design_experiments()
RunFullPipeline_DesignExperiments(o) ==
    /\ pl_pc = "design_experiments"
    /\ DesignExperiments(NoneArg, NoneArg, o)
    /\ pl_pc' = PipelineAfter(4, a_ret')
    /\ pl_ret' = IF a_ret'.k = "returned" THEN "running" ELSE "raised"
    /\ UNCHANGED <<fetchVars, parseVars, crawlVars, batchVars,
                   catalogVars, sessionVars, detailVars, downloadVars>>

\* generate_final_report reads the slots; the dict with status "success" is
\* returned.
RunFullPipeline_Return ==
    /\ pl_pc = "generate_final_report"
    /\ pl_pc' = "idle"
    /\ pl_ret' = "success"
    /\ a_ret' = StageReturned("run_full_pipeline", << >>, << >>)
    /\ UNCHANGED workflow_state
    /\ UNCHANGED <<fetchVars, parseVars, crawlVars, batchVars,
                   catalogVars, sessionVars, detailVars, downloadVars>>

\* AutoForgeAgent.__init__: every slot is None, nothing was called.
AgentIdle ==
    /\ workflow_state = [s \in {Slots[i] : i \in 1..Len(Slots)} |-> NoneSlot]
    /\ pl_pc = "idle"
    /\ pl_ret = "none"
    /\ a_ret = [op |-> "none", k |-> "none", args |-> << >>, passed |-> << >>]

\* What a caller passes for an optional input.
Args == {NoneArg, "t1"}

AgentNext ==
    \/ \E c \in Texts, o \in AnalyzerOutcomes : Agent_AnalyzeRequirements(c, o)
    \/ \E ra \in Args, o \in AnalyzerOutcomes : Agent_SearchModels(ra, o)
    \/ \E ra \in Args, sm \in Args, o \in AnalyzerOutcomes : Agent_DesignDataset(ra, sm, o)
    \/ \E ms \in Args, di \in Args, o \in AnalyzerOutcomes : Agent_DesignExperiments(ms, di, o)
    \/ \E er \in Texts, o \in AnalyzerOutcomes : Agent_AnalyzeResults(er, o)
    \/ \E c \in Texts, o \in AnalyzerOutcomes : RunFullPipeline_Call(c, o)
    \/ \E o \in AnalyzerOutcomes : RunFullPipeline_SearchModels(o)
    \/ \E o \in AnalyzerOutcomes : RunFullPipeline_DesignDataset(o)
    \/ \E o \in AnalyzerOutcomes : RunFullPipeline_DesignExperiments(o)
    \/ RunFullPipeline_Return

----------------------------------------------------------------------------
(***************************************************************************)
(* Detail workers fetching through the one session of a crawler            *)
(***************************************************************************)

\* self.user_agents; the session starts with the first of them.
UserAgents == {"ua1", "ua2"}
NoUserAgent == "none"

\* The threads of the pool: each runs crawl_paper_details, which calls
\* _get_with_retry on the crawler they all share.
Workers == 1..MaxWorkers

NotSent == [selected |-> NoUserAgent, user_agent |-> NoUserAgent]

\* What a session.get comes to for the loop body.
FetchOutcomes ==
    {[k |-> "resp", s |-> 200], [k |-> "resp", s |-> 404], [k |-> "timeout", s |-> 0]}

\* A worker picks up a task: crawl_paper_details enters _get_with_retry.
Fetch_Begin(w) ==
    /\ w_pc[w] = "idle"
    /\ w_pc' = [w_pc EXCEPT ![w] = "header"]
    /\ w_attempt' = [w_attempt EXCEPT ![w] = 0]
    /\ UNCHANGED <<session_ua, w_selected, w_sent>>
    /\ UNCHANGED <<fetchVars, parseVars, crawlVars, batchVars,
                   catalogVars, detailVars, downloadVars, agentVars>>

\* self.session.headers.update({'User-Agent': random.choice(self.user_agents)})
Fetch_SetUserAgent(w, ua) ==
    /\ w_pc[w] = "header"
    /\ w_selected' = [w_selected EXCEPT ![w] = ua]
    /\ session_ua' = ua
    /\ w_pc' = [w_pc EXCEPT ![w] = "sleep"]
    /\ UNCHANGED <<w_attempt, w_sent>>
    /\ UNCHANGED <<fetchVars, parseVars, crawlVars, batchVars,
                   catalogVars, detailVars, downloadVars, agentVars>>

\* After time.sleep, self.session.get(url, ...): the request is prepared with
\* the headers the session has now and comes to `o`; the loop returns, raises,
\* or goes to its next iteration.
Fetch_Send(w, o) ==
    /\ w_pc[w] = "sleep"
    /\ w_sent' = [w_sent EXCEPT ![w] = [selected |-> w_selected[w], user_agent |-> session_ua]]
    /\ w_selected' = [w_selected EXCEPT ![w] = NoUserAgent]
    /\ IF IsSuccess(o)
       THEN /\ w_pc' = [w_pc EXCEPT ![w] = "returned"]
            /\ w_attempt' = [w_attempt EXCEPT ![w] = 0]
       ELSE IF HandlerRaises(o, w_attempt[w], max_retries)
       THEN /\ w_pc' = [w_pc EXCEPT ![w] = "raised"]
            /\ w_attempt' = [w_attempt EXCEPT ![w] = 0]
       ELSE /\ w_pc' = [w_pc EXCEPT ![w] = "header"]
            /\ w_attempt' = [w_attempt EXCEPT ![w] = w_attempt[w] + 1]
    /\ UNCHANGED session_ua
    /\ UNCHANGED <<fetchVars, parseVars, crawlVars, batchVars,
                   catalogVars, detailVars, downloadVars, agentVars>>

\* The session as __init__ leaves it, and no worker started.
SessionIdle ==
    /\ session_ua = "ua1"
    /\ w_pc = [w \in Workers |-> "idle"]
    /\ w_attempt = [w \in Workers |-> 0]
    /\ w_selected = [w \in Workers |-> NoUserAgent]
    /\ w_sent = [w \in Workers |-> NotSent]

SessionNext ==
    \/ \E w \in Workers : Fetch_Begin(w)
    \/ \E w \in Workers, ua \in UserAgents : Fetch_SetUserAgent(w, ua)
    \/ \E w \in Workers, o \in FetchOutcomes : Fetch_Send(w, o)

\* A crawler constructed with max_retries, its pool of detail workers idle.
InitSession ==
    /\ f_pc = "idle"
    /\ max_retries = MaxRetries
    /\ attempt = 0
    /\ retries_left = 0
    /\ wire = 0
    /\ hist = << >>
    /\ sleeps = << >>
    /\ f_result = NoResult
    /\ ParseIdle /\ CrawlIdle /\ BatchIdle /\ CatalogIdle /\ SessionIdle /\ DetailIdle
    /\ DownloadIdle /\ AgentIdle

SpecSession == InitSession /\ [][SessionNext]_vars

----------------------------------------------------------------------------
(***************************************************************************)
(* Specifications                                                          *)
(***************************************************************************)

InitFetch ==
    FetchIdle /\ ParseIdle /\ CrawlIdle /\ BatchIdle /\ CatalogIdle /\ SessionIdle /\ DetailIdle
    /\ DownloadIdle /\ AgentIdle

SpecFetch == InitFetch /\ [][FetchNext]_vars

InitParse ==
    FetchIdle /\ ParseInit /\ CrawlIdle /\ BatchIdle /\ CatalogIdle /\ SessionIdle /\ DetailIdle
    /\ DownloadIdle /\ AgentIdle

SpecParse == InitParse /\ [][ParseNext]_vars

InitCrawl ==
    FetchIdle /\ ParseIdle /\ CrawlIdle /\ BatchIdle /\ CatalogLoaded /\ SessionIdle /\ DetailIdle
    /\ DownloadIdle /\ AgentIdle

SpecCrawl == InitCrawl /\ [][CrawlNext]_vars

InitBatch ==
    FetchIdle /\ ParseIdle /\ CrawlIdle /\ BatchIdle /\ CatalogLoaded /\ SessionIdle /\ DetailIdle
    /\ DownloadIdle /\ AgentIdle

SpecBatch == InitBatch /\ [][BatchNext]_vars

InitCall ==
    FetchIdle /\ ParseIdle /\ CrawlIdle /\ BatchIdle /\ CatalogLoaded /\ SessionIdle /\ DetailIdle
    /\ DownloadIdle /\ AgentIdle

SpecCall == InitCall /\ [][CallNext]_vars

\* A TaskManager is constructed on some file, then looked up and searched,
\* and the crawler that owns it crawls listings.
CatalogNext ==
    \/ \E cfg \in Configs : TM_Init(cfg)
    \/ \E tag \in TaskTags : TM_GetTaskByTag(tag)
    \/ \E category \in {"nlp", "cv"} : TM_GetTasksByCategory(category)
    \/ TM_GetAllCategories
    \/ \E keyword \in Keywords : TM_SearchTasks(keyword)
    \/ \E t \in TaskTags, fetched \in BOOLEAN :
          HF_CrawlModelsByTask(t, "trending", 1, fetched, <<ListingLink(1)>>)

InitCatalog ==
    FetchIdle /\ ParseIdle /\ CrawlIdle /\ BatchIdle /\ CatalogIdle /\ SessionIdle /\ DetailIdle
    /\ DownloadIdle /\ AgentIdle

SpecCatalog == InitCatalog /\ [][CatalogNext]_vars

InitDetail ==
    FetchIdle /\ ParseIdle /\ CrawlIdle /\ BatchIdle /\ CatalogIdle /\ SessionIdle /\ DetailInit
    /\ DownloadIdle /\ AgentIdle

SpecDetail == InitDetail /\ [][DetailNext]_vars

InitAgent ==
    FetchIdle /\ ParseIdle /\ CrawlIdle /\ BatchIdle /\ CatalogIdle /\ SessionIdle /\ DetailIdle
    /\ DownloadIdle /\ AgentIdle

SpecAgent == InitAgent /\ [][AgentNext]_vars

InitDownload ==
    FetchIdle /\ ParseIdle /\ CrawlIdle /\ BatchIdle /\ CatalogIdle /\ SessionIdle /\ DetailIdle
    /\ DownloadInit /\ AgentIdle

SpecDownload == InitDownload /\ [][DownloadNext]_vars

----------------------------------------------------------------------------
(***************************************************************************)
(* Properties of _get_with_retry                                           *)
(***************************************************************************)

\* The attempt budget N of the running call.
Budget == max_retries + 1

\* A retryable failure of one attempt, in the words of the specification: a
\* timeout, a connection error, or an HTTP error (4xx/5xx, raised by
\* raise_for_status or by the exhausted adapter) other than 404.
RetryableFailure(o) ==
    \/ o.k \in {"timeout", "conn"}
    \/ o.k = "retryerr"
    \/ o.k = "resp" /\ o.s >= 400 /\ o.s < 600 /\ o.s # 404

AllRetryable == \A i \in 1..Len(hist) : RetryableFailure(hist[i])

\* C1: when every attempt ends in a retryable failure, the call makes exactly
\* N = max_retries + 1 attempts and then raises the last failure; it never makes
\* an (N+1)-th attempt and never gives up before the N-th.
C1_ExactlyNAttempts ==
    /\ Len(hist) <= Budget
    /\ (f_pc = "raised" /\ AllRetryable) =>
          /\ Len(hist) = Budget
          /\ f_result.k = hist[Len(hist)].k
          /\ f_result.s = hist[Len(hist)].s
          /\ f_result.at = Budget
    /\ (f_pc # "idle" /\ AllRetryable /\ Len(hist) < Budget) => f_pc = "try"

\* C1 witness: a budget of three, three retryable failures of different kinds, raised.
C1_Witness ==
    /\ f_pc = "raised"
    /\ max_retries = 2
    /\ Len(hist) = 3
    /\ AllRetryable
    /\ hist[1].k = "timeout"
    /\ hist[2].k = "resp"
    /\ hist[3].k = "retryerr"

\* C2: an attempt that receives HTTP 404 ends the call at once with that error;
\* no attempt follows it, whatever budget remains.
C2_NotFoundIsTerminal ==
    \A i \in 1..Len(hist) :
        (hist[i].k = "resp" /\ hist[i].s = 404) =>
            /\ i = Len(hist)
            /\ f_pc = "raised"
            /\ f_result = [k |-> "resp", s |-> 404, at |-> i]

\* C2 witness: 404 on the first attempt of a budget of three, one attempt made.
C2_Witness ==
    /\ max_retries = 2
    /\ f_pc = "raised"
    /\ hist = << [k |-> "resp", s |-> 404] >>
    /\ wire = 1

\* C9: if attempts 1..k-1 fail and attempt k gets a 2xx response, the call
\* returns the response of attempt k after exactly k attempts, none after it.
C9_ReturnsFirstSuccess ==
    \A i \in 1..Len(hist) :
        (hist[i].k = "resp" /\ hist[i].s >= 200 /\ hist[i].s < 300) =>
            /\ i = Len(hist)
            /\ i <= Budget
            /\ f_pc = "returned"
            /\ f_result = [k |-> "resp", s |-> hist[i].s, at |-> i]
            /\ \A j \in 1..(i - 1) : RetryableFailure(hist[j])

\* C9 witness: two failed attempts on 503, then 200 on the third of a budget of three.
C9_Witness ==
    /\ max_retries = 2
    /\ f_pc = "returned"
    /\ Len(hist) = 3
    /\ hist[1] = [k |-> "retryerr", s |-> 503]
    /\ hist[2] = [k |-> "retryerr", s |-> 503]
    /\ hist[3] = [k |-> "resp", s |-> 200]
    /\ f_result.at = 3

\* C10 as stated: a response is returned only when its status is 2xx; a response
\* with any other status except 404 is a retryable failure and, with the budget
\* exhausted, the call fails with an HTTP error carrying that status.
C10_Original ==
    /\ f_pc = "returned" => (f_result.s >= 200 /\ f_result.s < 300)
    /\ \A i \in 1..Len(hist) :
          (hist[i].k = "resp" /\ ~(hist[i].s >= 200 /\ hist[i].s < 300) /\ hist[i].s # 404) =>
              \/ i < Len(hist)
              \/ f_pc = "try" /\ i < Budget
              \/ f_pc = "raised" /\ i = Budget /\ f_result.k = "resp" /\ f_result.s = hist[i].s

\* C10 amended: a response is returned only when raise_for_status accepts it
\* (status below 400); a response with a 4xx/5xx status other than 404 is a
\* retryable failure, and with the budget exhausted the call fails with the
\* HTTPError carrying that status; a forcelist status reaches the loop as the
\* RetryError of the exhausted adapter, retryable and raised in the same way.
C10_ReturnsOnlyAccepted ==
    /\ f_pc = "returned" => (f_result.k = "resp" /\ f_result.s < 400)
    /\ \A i \in 1..Len(hist) :
          (hist[i].k = "resp" /\ hist[i].s >= 400 /\ hist[i].s # 404) =>
              \/ i < Len(hist)
              \/ f_pc = "try" /\ i < Budget
              \/ f_pc = "raised" /\ i = Budget /\ f_result.k = "resp" /\ f_result.s = hist[i].s
    /\ \A i \in 1..Len(hist) :
          hist[i].k = "retryerr" =>
              \/ i < Len(hist)
              \/ f_pc = "try" /\ i < Budget
              \/ f_pc = "raised" /\ i = Budget /\ f_result.k = "retryerr"

\* C10 witness: 403 on every attempt of a budget of two, the call fails with 403.
C10_Witness ==
    /\ max_retries = 1
    /\ f_pc = "raised"
    /\ hist = << [k |-> "resp", s |-> 403], [k |-> "resp", s |-> 403] >>
    /\ f_result = [k |-> "resp", s |-> 403, at |-> 2]

\* C22: the sleep before attempt 0 is the politeness delay, and the sleep
\* before attempt a >= 1 is delay * 2^(a-1) * jitter for a jitter in [0.5, 2.0]
\* (in half seconds: delay * 2^(a-1) times a jitter of 1 to 4 halves).
C22_Original ==
    \A i \in 1..Len(sleeps) :
        IF i = 1
        THEN sleeps[i] = 2 * Delay
        ELSE /\ sleeps[i] >= Delay * (2 ^ (i - 2)) * 1
             /\ sleeps[i] <= Delay * (2 ^ (i - 2)) * 4

\* C25: a finished call of _get_with_retry has put at most max_retries + 1
\* requests on the wire, those the mounted Retry adapter sends again counted.
C25_Original == f_pc \in {"returned", "raised"} => wire <= Budget

\* C26: a call that has ended either returned a response or raised the
\* exception of its last attempt; while it runs, its loop variable is inside
\* range(max_retries + 1), so the loop is never left at its end.
C26_ReturnsResponseOrRaises ==
    /\ f_pc = "returned" => f_result.k = "resp"
    /\ f_pc = "raised" =>
          /\ f_result.k \in {"resp", "timeout", "conn", "retryerr"}
          /\ f_result.k = hist[Len(hist)].k
    /\ f_pc = "try" => attempt <= max_retries /\ f_result = NoResult

\* C26 witness: max_retries = 0, the only attempt times out, the call raises.
C26_Witness ==
    /\ max_retries = 0
    /\ f_pc = "raised"
    /\ hist = << [k |-> "timeout", s |-> 0] >>
    /\ f_result.k = "timeout"

----------------------------------------------------------------------------
(***************************************************************************)
(* Properties of the listing extraction                                    *)
(***************************************************************************)

\* The cards methods 1 and 2 of parse_model_list look at.
ArticleCards == Take(SelectSeq(html, LAMBDA e : e.tag = "article"), top_k)

DivCards == Take(SelectSeq(html, LAMBDA e : e.tag = "div"), 2 * top_k)

HasEntityLink(s) == \E n \in 1..Len(s) : MatchesEntity(s[n].href)

\* The first top_k article cards of the page that hold an entity link.
LinkedArticles == {i \in 1..Len(ArticleCards) : MatchesEntity(ArticleCards[i].href)}

\* C5: the records returned come from exactly one strategy; a later strategy has
\* run only if every earlier one yielded no usable record; for the selector
\* chain of the papers listing, the records come from one selector and no
\* earlier selector of the chain matched a card.
C5_OneStrategyOnly ==
    p_pc = "done" =>
        /\ \A i, j \in 1..Len(models) : models[i].by = models[j].by
        /\ site = "hf" =>
              \A i \in 1..Len(models) :
                  /\ models[i].by \in 1..3
                  /\ models[i].by >= 2 => ~HasEntityLink(ArticleCards)
                  /\ models[i].by = 3 => ~HasEntityLink(DivCards)
        /\ site = "pwc" =>
              \A i \in 1..Len(models) :
                  \A n \in 1..(models[i].by - 1) :
                      \A c \in 1..Len(cards) : ~SelectorMatches(n, cards[c])

\* C5 witness: a page with article and div cards that hold no entity link, so
\* that only the bare links yield records.
C5_Witness ==
    /\ p_pc = "done"
    /\ site = "hf"
    /\ Len(models) >= 1
    /\ models[1].by = 3
    /\ \E i \in 1..Len(html) : html[i].tag = "article"
    /\ \E i \in 1..Len(html) : html[i].tag = "div"

\* C6: every record parse_model_list returns has a non-empty model_id and a
\* non-empty name; a card with an entity link is returned whether or not it has
\* the optional fields, a card without identifier never.
C6_MandatoryFields ==
    (p_pc = "done" /\ site = "hf") =>
        /\ \A i \in 1..Len(models) :
              /\ models[i].model_id # << >>
              /\ models[i].name # << >>
        /\ LinkedArticles # {} => Len(models) = Cardinality(LinkedArticles)

\* C6 witness: two records returned, one without optional fields and with the
\* name falling back to the identifier, from a page that also holds an article
\* without entity link.
C6_Witness ==
    /\ p_pc = "done"
    /\ site = "hf"
    /\ Len(models) = 2
    /\ \E i \in 1..2 : models[i].extras = {} /\ models[i].name = models[i].model_id
    /\ \E i \in 1..2 : models[i].extras # {}
    /\ \E i \in 1..Len(html) : html[i].tag = "article" /\ html[i].href = NoHref

\* The well-formed entity cards of the page: the articles that hold an entity link.
WellFormedCards == {i \in 1..Len(html) : html[i].tag = "article" /\ MatchesEntity(html[i].href)}

\* C16: for a page of article cards of which k are well-formed, and every limit
\* L, parse_model_list returns exactly min(k, L) records, each with identifier,
\* name and url, and never more than L.
C16_Original ==
    (p_pc = "done" /\ site = "hf" /\ \A i \in 1..Len(html) : html[i].tag = "article") =>
        /\ Len(models) <= top_k
        /\ Len(models) = IF Cardinality(WellFormedCards) < top_k
                         THEN Cardinality(WellFormedCards)
                         ELSE top_k
        /\ \A i \in 1..Len(models) :
              /\ models[i].model_id # << >>
              /\ models[i].name # << >>
              /\ models[i].url # << >>

----------------------------------------------------------------------------
(***************************************************************************)
(* Properties of batch enrichment                                          *)
(***************************************************************************)

\* Every input record is a listing record: it carries its identifier.
AllKeyed == \A i \in 1..Len(b_in) : IdKey(b_site) \in DOMAIN b_in[i]

Occurrences(seq, x) == Cardinality({n \in 1..Len(seq) : seq[n] = x})

\* C3: for N listing records of which any subset fails to be fetched, batch
\* enrichment returns exactly N records, each input record once: a failed one
\* with its listing fields only, a successful one enriched.
C3_OneOutputPerInput ==
    (b_pc = "returned" /\ AllKeyed) =>
        /\ Len(detailed) = Len(b_in)
        /\ \A i \in 1..Len(b_in) : Occurrences(detailed, i) = 1
        /\ \A t \in DOMAIN fut :
              /\ fut[t].st = "err" => obj[fut[t].rec] = b_in[fut[t].rec]
              /\ fut[t].st = "ok" =>
                    /\ "crawled_at" \in DOMAIN obj[fut[t].rec]
                    /\ DOMAIN b_in[fut[t].rec] \subseteq DOMAIN obj[fut[t].rec]

\* C3 witness: three records, the fetch of exactly one failed, three returned
\* in an order other than the input order.
C3_Witness ==
    /\ b_pc = "returned"
    /\ AllKeyed
    /\ Len(b_in) = 3
    /\ Len(detailed) = 3
    /\ detailed # <<1, 2, 3>>
    /\ Cardinality({t \in DOMAIN fut : fut[t].st = "err"}) = 1

\* C4: the batch returns only after every submitted task has returned or
\* raised; a task that raises leaves every sibling as it is, and a waiting task
\* is only ever started, never cancelled or skipped.
C4_NotEarlyCancelling ==
    [][ /\ b_pc' = "returned" => \A t \in DOMAIN fut' : fut'[t].st \in {"ok", "err"}
        /\ \A t \in DOMAIN fut :
              (fut[t].st = "running" /\ fut'[t].st = "err") =>
                  \A u \in DOMAIN fut \ {t} : fut'[u] = fut[u]
        /\ \A t \in DOMAIN fut :
              fut[t].st = "pending" => fut'[t].st \in {"pending", "running"}
      ]_vars

\* C4 witness: one worker, the first task raised, the tasks queued behind it ran
\* and succeeded, and the batch returned.
C4_Witness ==
    /\ b_pc = "returned"
    /\ max_workers = 1
    /\ Len(fut) = 3
    /\ fut[1].st = "err"
    /\ fut[2].st = "ok"
    /\ fut[3].st = "ok"

\* C11: batch enrichment leaves the listing record objects it was given (or
\* that the listing step produced) as they were, no key added or changed; the
\* details go into copies.
C11_Original ==
    b_pc = "returned" => obj = b_in

\* The url has scheme and host, as every url _parse_paper_item stores has.
Absolute(url) == url # << >> /\ url[1] = "h"

\* A record as the listing step of the site produces it.
ListingRecord(s, r) ==
    /\ IdKey(s) \in DOMAIN r
    /\ s = "pwc" => Absolute(r.url)

C13_AtMostMaxWorkersRunning ==
    b_pc \in {"pool", "returned"} =>
        /\ Cardinality(Running(fut)) <= max_workers
        /\ \A t \in DOMAIN fut : fut[t].st \in {"pending", "running", "ok", "err"}
        /\ (AllKeyed /\ (b_pc = "pool" \/ fut # << >>)) =>
              /\ Len(fut) = Len(b_in)
              /\ \A i \in 1..Len(b_in) :
                    Cardinality({t \in DOMAIN fut : fut[t].rec = i}) = 1

\* C13 witness: three tasks and two workers, both busy while the third task
\* waits in the queue.
C13_Witness ==
    /\ b_pc = "pool"
    /\ max_workers = 2
    /\ Len(fut) = 3
    /\ Cardinality(Running(fut)) = 2
    /\ \E t \in DOMAIN fut : fut[t].st = "pending"

----------------------------------------------------------------------------
(***************************************************************************)
(* Properties of the save operations                                       *)
(***************************************************************************)

\* The identifier of a persisted record: model_id of a model, url of a paper.
RecordId(path, r) == IF path.root = "hf" THEN r.model_id ELSE r.url

\* C7: every batch file written by a save holds each identifier at most once
\* (of two records with one identifier only the first is persisted).
C7_Original ==
    \A path \in DOMAIN fs :
        \A i, j \in 1..Len(fs[path].records) :
            i # j => RecordId(path, fs[path].records[i]) # RecordId(path, fs[path].records[j])

\* C8: no save overwrites or alters a batch written earlier: every file keeps
\* its content through every later operation.
C8_Original ==
    [][\A path \in DOMAIN fs : path \in DOMAIN fs' /\ fs'[path] = fs[path]]_vars

----------------------------------------------------------------------------
(***************************************************************************)
(* Properties of the listing operations                                    *)
(***************************************************************************)

\* A step of an operation whose listing fetch fails (for a task of the catalog,
\* where the operation looks the task up first).
ListingFetchFails ==
    \E k \in 1..MaxTopK :
        \/ \E page \in ListingPages, t \in CatalogTags :
              HF_CrawlModelsByTask(t, "trending", k, FALSE, page)
        \/ \E page \in ListingPages, t \in CatalogTags, fd \in BOOLEAN, w \in 1..MaxWorkers :
              HF_Batch_Begin(t, "trending", k, FALSE, page, fd, w)
        \/ \E page \in ListingPages : HF_SearchModels(Query, k, FALSE, page)
        \/ \E page \in PaperPages : PWC_CrawlTrendingPapers(k, FALSE, page)
        \/ \E page \in PaperPages : PWC_CrawlPapersByArea("cv", "trending", k, FALSE, page)
        \/ \E page \in PaperPages : PWC_SearchPapers(Query, k, FALSE, page)

\* C14: when the listing fetch of an operation fails, the operation raises the
\* failure: it returns no list, writes no file and submits no detail task.
C14_ListingFailureIsRaised ==
    [][ListingFetchFails =>
          /\ c_ret'.how = "FetchError"
          /\ c_ret'.records = << >>
          /\ fs' = fs
          /\ fut' = << >>
          /\ b_pc' \in {"idle", "raised"}
      ]_vars

\* C14 witness: crawl_models_batch ended with the failure of its listing fetch,
\* with no task submitted and no file written.
C14_Witness ==
    /\ b_pc = "raised"
    /\ c_ret.op = "crawl_models_by_task"
    /\ c_ret.how = "FetchError"
    /\ fut = << >>
    /\ fs = << >>

\* The files that hold a batch of records (the others are model cards).
BatchFiles(files) == {path \in DOMAIN files : path.kind \in {"models", "detailed", "papers"}}

\* The operation that just ended returned `records` and saved them as a batch.
ReturnedAndSaved(k) ==
    /\ c_ret'.how = "returned"
    /\ Len(c_ret'.records) <= k
    /\ \E path \in BatchFiles(fs') :
          /\ fs'[path].records = c_ret'.records
          /\ fs'[path].count = Len(c_ret'.records)

\* C15: every persisted batch has a count equal to the number of its records,
\* and a listing crawl whose fetch succeeded returns and persists what it
\* extracted, be it fewer than top_k records or none.
C15_CountIsNumberOfRecords ==
    [][ /\ \A path \in BatchFiles(fs') : fs'[path].count = Len(fs'[path].records)
        /\ \A k \in 1..MaxTopK :
              /\ \A page \in ListingPages, t \in CatalogTags :
                    HF_CrawlModelsByTask(t, "trending", k, TRUE, page) => ReturnedAndSaved(k)
              /\ \A page \in PaperPages :
                    \/ PWC_CrawlTrendingPapers(k, TRUE, page)
                    \/ PWC_CrawlPapersByArea("cv", "trending", k, TRUE, page)
                    \/ PWC_SearchPapers(Query, k, TRUE, page)
                    => ReturnedAndSaved(k)
      ]_vars

\* C15 witness: a crawl of the trending papers that found no card returned the
\* empty list and saved a batch that counts zero.
C15_Witness ==
    /\ c_ret.op = "crawl_trending_papers"
    /\ c_ret.how = "returned"
    /\ c_ret.records = << >>
    /\ \E path \in BatchFiles(fs) : fs[path].count = 0

\* C17: every paper record in a file written by _save_paper_list has a
\* non-empty url and a non-empty title.
C17_Original ==
    \A path \in DOMAIN fs :
        path.kind = "papers" =>
            \A i \in 1..Len(fs[path].records) :
                /\ fs[path].records[i].url # << >>
                /\ fs[path].records[i].title \notin {"none", "empty"}

----------------------------------------------------------------------------
(***************************************************************************)
(* Properties of the task catalog                                          *)
(***************************************************************************)

\* The file is a mapping of categories to lists, and every task entry has a
\* tag, a name and a description.
WellFormedConfig(cfg) ==
    /\ cfg.kind = "mapping"
    /\ \A i \in DOMAIN cfg.items :
          /\ cfg.items[i].is_list
          /\ cfg.items[i].category # "sort_options" =>
                \A j \in DOMAIN cfg.items[i].entries :
                    {"tag", "name", "description"} \subseteq DOMAIN cfg.items[i].entries[j]

CatalogLookups == {"get_task_by_tag", "get_tasks_by_category", "get_all_categories", "search_tasks"}

\* C18: a TaskManager is constructed only from a well-formed file, and no
\* lookup or search on a constructed TaskManager raises.
C18_Original ==
    /\ tm_pc = "loaded" => WellFormedConfig(config)
    /\ tm_ret.op \in CatalogLookups => tm_ret.how = "returned"

\* C19: whatever lookups, searches and listing crawls have run since the
\* TaskManager was constructed, its tasks and sort options are those the
\* constructor loaded from the file.
C19_CatalogIsAsLoaded ==
    tm_pc = "loaded" =>
        /\ tasks = LoadConfig(config).tasks
        /\ sort_options = LoadConfig(config).sort_options

\* C19 witness: a search that matched a task and a listing crawl that saved
\* its list have both run on a loaded catalog.
C19_Witness ==
    /\ tm_pc = "loaded"
    /\ tm_ret.op = "search_tasks"
    /\ Len(tm_ret.found) > 0
    /\ c_ret.op = "crawl_models_by_task"
    /\ c_ret.how = "returned"
    /\ fs # << >>

----------------------------------------------------------------------------
(***************************************************************************)
(* Properties of concurrent fetches                                        *)
(***************************************************************************)

\* C20: every request a detail worker has sent carried the User-Agent that
\* the same attempt of the same worker selected.
C20_Original ==
    \A w \in Workers :
        w_sent[w] # NotSent => w_sent[w].user_agent = w_sent[w].selected

----------------------------------------------------------------------------
(***************************************************************************)
(* Properties of the requests                                              *)
(***************************************************************************)

\* C21: every request of a listing, search or detail fetch is issued with a
\* timeout.
C21_Original == \A r \in sent : r.timeout # NoTimeout

\* C30: a call of crawl_models_by_task, alone or as the first step of
\* crawl_models_batch, with a tag the catalog does not have ends in ValueError
\* with no request sent, no file written and no detail task submitted; every
\* listing request of crawl_models_by_task is for a tag of the catalog.
C30_UnknownTagRaisesBeforeRequest ==
    /\ (c_ret.op = "crawl_models_by_task" /\ GetTaskByTag(c_ret.task) = << >>) =>
          /\ c_ret.how = "ValueError"
          /\ sent = {}
          /\ fs = << >>
          /\ fut = << >>
          /\ b_pc \in {"idle", "raised"}
    /\ \A r \in sent :
          r.op = "crawl_models_by_task" => GetTaskByTag(r.target) # << >>

\* C30 witness: crawl_models_batch was called with an unknown tag and raised
\* ValueError, nothing sent and nothing written.
C30_Witness ==
    /\ b_pc = "raised"
    /\ c_ret.op = "crawl_models_by_task"
    /\ c_ret.task = UnknownTag
    /\ c_ret.how = "ValueError"
    /\ sent = {}
    /\ fs = << >>

----------------------------------------------------------------------------
(***************************************************************************)
(* Properties of the model card files                                      *)
(***************************************************************************)

\* C27: the detail tasks of crawl_models_batch that run at the same time
\* write to different model card directories.
C27_Original ==
    b_site = "hf" =>
        \A t \in Running(fut), u \in Running(fut) :
            t # u => ModelCardDir(fut[t].arg) # ModelCardDir(fut[u].arg)

----------------------------------------------------------------------------
(***************************************************************************)
(* Properties of the detail extraction                                     *)
(***************************************************************************)

\* The text of the first of the three containers, in order, that has text.
FirstNonEmpty(page) ==
    IF page.card = "text" THEN "card"
    ELSE IF page.readme = "text" THEN "readme"
    ELSE IF page.main = "text" THEN "main"
    ELSE "None"

\* C23: the model card of a parsed page is the text of the first container, in
\* order, that has text, and there is no model card only when none has text.
C23_Original ==
    (d_pc = "done" /\ d_site = "hf") =>
        IF FirstNonEmpty(d_page) = "None"
        THEN "model_card" \notin DOMAIN d_info
        ELSE /\ "model_card" \in DOMAIN d_info
             /\ d_info.model_card = FirstNonEmpty(d_page)

\* C24: the lists of files, repositories and implementations of a detail
\* record are cut at a bound, one below the number of links of the densest
\* page.
C24_Original ==
    d_pc = "done" =>
        /\ (d_site = "hf" /\ "files" \in DOMAIN d_info) => Len(d_info.files) < MaxLinks
        /\ d_site = "pwc" =>
              /\ Len(d_info.github_repos) < MaxLinks
              /\ Len(d_info.implementations) < MaxLinks

----------------------------------------------------------------------------
(***************************************************************************)
(* Properties of the downloader                                            *)
(***************************************************************************)

\* C28: a call that returned a path returned the path of a file that holds
\* the whole document, and a call whose attempts all failed returned None.
C28_Original ==
    dl_pc = "done" =>
        /\ dl_ret = "path" => disk[dl_url] = Written(MaxChunks)
        /\ dl_ret = "None" => disk[dl_url] # Written(MaxChunks)

----------------------------------------------------------------------------
(***************************************************************************)
(* Properties of the agent workflow                                        *)
(***************************************************************************)

\* The slots a stage reads when it is called without explicit inputs.
Prerequisites(op) ==
    CASE op = "search_models" -> {"requirement_analysis"}
      [] op = "design_dataset" -> {"requirement_analysis", "model_search"}
      [] op = "design_experiments" -> {"model_search", "dataset_design"}
      [] OTHER -> {}

\* The stage that writes a slot.
StageOf(slot) ==
    CASE slot = "requirement_analysis" -> "analyze_requirements"
      [] slot = "model_search" -> "search_models"
      [] slot = "dataset_design" -> "design_dataset"
      [] slot = "experiment_design" -> "design_experiments"
      [] OTHER -> "analyze_results"

\* A call of a stage with every optional input left out.
WithoutInputs(ret) == \A i \in 1..Len(ret.args) : ret.args[i] = NoneArg

\* The step is part of a run of run_full_pipeline.
InPipeline == pl_pc # "idle" \/ pl_pc' # "idle" \/ pl_ret' # pl_ret

====
